---- MODULE Spec2Model ----
(***************************************************************************)
(* A model of the Scheme interpreter core (src/src/parser.cpp,             *)
(* src/src/evaluation.cpp, src/src/value.cpp, src/src/utils.hpp).          *)
(*                                                                         *)
(* Environments are chains of heap-allocated frames (AssocList) reached    *)
(* through handles (Assoc): the heap is a sequence of frames, a handle is  *)
(* an index into it and 0 is the null handle.  Every eval method is an     *)
(* operator that threads the heap, the output stream and the Assoc         *)
(* variable it received by reference, and returns them with the value or   *)
(* the error that was thrown.                                              *)
(***************************************************************************)
EXTENDS Integers, Sequences, FiniteSets, TLC

VARIABLES
    heap,       \* the AssocList frames allocated so far: [x, v, next]
    genv,       \* the top-level Assoc variable handed to every eval
    form,       \* the syntax tree of the last top-level form
    last,       \* the Expr the translator produced for it
    res,        \* outcome of the last form: [st, err, v]
    out,        \* what the last form wrote to standard output
    pre,        \* heap and genv as they were before the last form
    phase,      \* "defs" while the session accepts forms, "done" afterwards
    ndefs,      \* number of definition-phase forms evaluated so far
    suite,      \* the family of programs this session draws its forms from
    argOrder,   \* order in which the build evaluates function arguments
    ubPick,     \* what flowing off the end of a function did in the last form
    call,       \* the helper function called directly, and its arguments
    ret         \* what that call left in its reference arguments

vars == <<heap, genv, form, last, res, out, pre, phase, ndefs, suite, argOrder, ubPick,
          call, ret>>

(***************************************************************************)
(* Bounds                                                                  *)
(***************************************************************************)
MaxDefs == 3        \* definition-phase forms per session
MaxVal == 2         \* largest integer a top-level define or set! stores
MaxRands == 4       \* most operands of an and / or form
MaxClauses == 2     \* most clauses with a test of a cond form
MaxN == 10          \* largest integer literal fed to the recursive procedures
MaxBodies == 3      \* most body expressions of a procedure definition
MaxLen == 3         \* most elements of a quoted list in front of its tail
MaxNum == 2         \* largest numerator of a numeric literal, in absolute value
MaxDen == 3         \* largest denominator of a numeric literal
MaxBase == 3        \* bases of expt: -MaxBase..MaxBase, the powers of 2 and the limits of int
MaxExp == 32        \* exponents of expt: -1..MaxExp
MaxParams == 2      \* most parameters and most operands of an application
MaxArg == 8         \* largest argument of a direct call of a helper, in absolute value
MaxDepth == MaxN + 4  \* nested procedure calls the host stack allows

(***************************************************************************)
(* Values (value.cpp)                                                      *)
(***************************************************************************)
NullPtr == [t |-> "nullptr"]                      \* Value(nullptr)
VoidV == [t |-> "V_VOID"]
IntegerV(n) == [t |-> "V_INT", n |-> n]
BooleanV(b) == [t |-> "V_BOOL", b |-> b]
SymbolV(s) == [t |-> "V_SYM", s |-> s]
StringV(s) == [t |-> "V_STRING", s |-> s]
NullV == [t |-> "V_NULL"]
TerminateV == [t |-> "V_TERMINATE"]
PairV(car, cdr) == [t |-> "V_PAIR", car |-> car, cdr |-> cdr]
ProcedureV(xs, e, env) == [t |-> "V_PROC", parameters |-> xs, e |-> e, env |-> env]

Abs(a) == IF a < 0 THEN -a ELSE a

\* C++ integer division and remainder truncate toward zero
CDiv(a, b) == IF (a >= 0) = (b > 0) THEN Abs(a) \div Abs(b) ELSE -(Abs(a) \div Abs(b))
CMod(a, b) == a - b * CDiv(a, b)

RECURSIVE gcdLoop(_, _)
gcdLoop(a, b) == IF b # 0 THEN gcdLoop(b, CMod(a, b)) ELSE a

gcd(a, b) == gcdLoop(Abs(a), Abs(b))

lcm(a, b) == CDiv(Abs(a), gcd(a, b)) * Abs(b)

\* normalize_rational(num, den): both are divided by their gcd
normalize_rational(num, den) ==
    LET g == gcd(num, den) IN [num |-> CDiv(num, g), den |-> CDiv(den, g)]

\* what a constructor or an evalRator does: it returns a value or throws
Val(v) == [ok |-> TRUE, err |-> "", v |-> v]
Raise(msg) == [ok |-> FALSE, err |-> msg, v |-> NullPtr]

\* Rational::Rational had it reduced without moving the sign first
Rational_unsigned(num, den) ==
    IF den = 0 THEN Raise("Division by zero")
    ELSE LET r == normalize_rational(num, den)
         IN Val([t |-> "V_RATIONAL", numerator |-> r.num, denominator |-> r.den])

\* Rational::Rational: throws on a zero denominator, moves the sign to the
\* numerator and reduces
Rational(num, den) ==
    IF den = 0 THEN Raise("Division by zero")
    ELSE LET numerator == IF den < 0 THEN -num ELSE num
             denominator == IF den < 0 THEN -den ELSE den
             r == normalize_rational(numerator, denominator)
         IN Val([t |-> "V_RATIONAL", numerator |-> r.num, denominator |-> r.den])

RationalV(num, den) == Rational(num, den)

(***************************************************************************)
(* The printer (value.cpp): show writes to a stream, here it returns the   *)
(* characters written                                                      *)
(***************************************************************************)
\* operator<< of the stream on a number: its decimal digits
Digit(d) ==
    CASE d = 0 -> "0" [] d = 1 -> "1" [] d = 2 -> "2" [] d = 3 -> "3" [] d = 4 -> "4"
      [] d = 5 -> "5" [] d = 6 -> "6" [] d = 7 -> "7" [] d = 8 -> "8" [] OTHER -> "9"
RECURSIVE Digits(_)
Digits(n) == IF n < 10 THEN Digit(n) ELSE Digits(n \div 10) \o Digit(n % 10)
Decimal(n) == IF n < 0 THEN "-" \o Digits(-n) ELSE Digits(n)

Void_show == "#<void>"
Integer_show(v) == Decimal(v.n)
Rational_show(v) ==
    IF v.denominator = 1 THEN Decimal(v.numerator)
    ELSE Decimal(v.numerator) \o "/" \o Decimal(v.denominator)
Boolean_show(v) == IF v.b THEN "#t" ELSE "#f"
Symbol_show(v) == v.s
String_show(v) == "\"" \o v.s \o "\""
Null_show == "()"
Terminate_show == "()"
Procedure_show == "#<procedure>"

RECURSIVE show(_)
RECURSIVE showCdr(_)

\* ValueBase::showCdr, inherited by every class but Null and Pair
ValueBase_showCdr(v) == " . " \o show(v) \o ")"

\* Null::showCdr had it not been overridden: the inherited ValueBase::showCdr
Null_showCdr_inherited == " . " \o Null_show \o ")"

Null_showCdr == ")"

Pair_show(v) == "(" \o show(v.car) \o showCdr(v.cdr)
Pair_showCdr(v) == " " \o show(v.car) \o showCdr(v.cdr)

\* the virtual calls v->show(os) and v->showCdr(os)
show(v) ==
    CASE v.t = "V_VOID" -> Void_show
      [] v.t = "V_INT" -> Integer_show(v)
      [] v.t = "V_RATIONAL" -> Rational_show(v)
      [] v.t = "V_BOOL" -> Boolean_show(v)
      [] v.t = "V_SYM" -> Symbol_show(v)
      [] v.t = "V_STRING" -> String_show(v)
      [] v.t = "V_NULL" -> Null_show
      [] v.t = "V_TERMINATE" -> Terminate_show
      [] v.t = "V_PAIR" -> Pair_show(v)
      [] OTHER -> Procedure_show
showCdr(v) ==
    CASE v.t = "V_NULL" -> Null_showCdr
      [] v.t = "V_PAIR" -> Pair_showCdr(v)
      [] OTHER -> ValueBase_showCdr(v)

(***************************************************************************)
(* Environment (value.cpp): the heap h is passed explicitly                *)
(***************************************************************************)
empty == 0

\* extend allocates one frame in front of lst; the new handle is Len(h) + 1
\* extend had it reused the head frame when that frame binds the same name
extend_rebinding(x, v, lst, h) ==
    IF lst # 0 /\ h[lst].x = x THEN [env |-> lst, h |-> [h EXCEPT ![lst].v = v]]
    ELSE [env |-> Len(h) + 1, h |-> Append(h, [x |-> x, v |-> v, next |-> lst])]

extend(x, v, lst, h) ==
    [env |-> Len(h) + 1, h |-> Append(h, [x |-> x, v |-> v, next |-> lst])]

\* the loop shared by modify, find and bound: first frame of the chain
\* starting at i whose name is x, 0 if there is none
RECURSIVE firstFrame(_, _, _)
firstFrame(x, i, h) ==
    IF i = 0 THEN 0
    ELSE IF h[i].x = x THEN i
    ELSE firstFrame(x, h[i].next, h)

\* modify: ok = FALSE stands for the RuntimeError("undefined variable")
modify(x, v, lst, h) ==
    LET i == firstFrame(x, lst, h)
    IN IF i = 0 THEN [ok |-> FALSE, h |-> h]
       ELSE [ok |-> TRUE, h |-> [h EXCEPT ![i].v = v]]

find(x, l, h) ==
    LET i == firstFrame(x, l, h)
    IN IF i = 0 THEN NullPtr ELSE h[i].v

bound(name, env, h) == firstFrame(name, env, h) # 0

\* the frames of a chain, innermost first
RECURSIVE chain(_, _)
chain(i, h) == IF i = 0 THEN <<>> ELSE <<i>> \o chain(h[i].next, h)

(***************************************************************************)
(* Syntax trees (the reader's output) and expression trees                 *)
(***************************************************************************)
Number(n) == [k |-> "Number", n |-> n]
RationalSyntax(numerator, denominator) ==
    [k |-> "RationalSyntax", numerator |-> numerator, denominator |-> denominator]
SymbolSyntax(s) == [k |-> "SymbolSyntax", s |-> s]
TrueSyntax == [k |-> "TrueSyntax"]
FalseSyntax == [k |-> "FalseSyntax"]
List(stxs) == [k |-> "List", stxs |-> stxs]

Fixnum(n) == [c |-> "Fixnum", n |-> n]
RationalNum(numerator, denominator) ==
    [c |-> "RationalNum", numerator |-> numerator, denominator |-> denominator]
True == [c |-> "True"]
False == [c |-> "False"]
MakeVoid == [c |-> "MakeVoid"]
Var(x) == [c |-> "Var", x |-> x]
Unary(c, rand) == [c |-> c, rand |-> rand]
Binary(c, rand1, rand2) == [c |-> c, rand1 |-> rand1, rand2 |-> rand2]
Variadic(c, rands) == [c |-> c, rands |-> rands]
Begin(es) == [c |-> "Begin", es |-> es]
Quote(s) == [c |-> "Quote", s |-> s]
If(cond, conseq, alter) == [c |-> "If", cond |-> cond, conseq |-> conseq, alter |-> alter]
Cond(clauses) == [c |-> "Cond", clauses |-> clauses]
Lambda(x, e) == [c |-> "Lambda", x |-> x, e |-> e]
Apply(rator, rand) == [c |-> "Apply", rator |-> rator, rand |-> rand]
Define(var, e) == [c |-> "Define", var |-> var, e |-> e]
Let(bind, body) == [c |-> "Let", bind |-> bind, body |-> body]
Letrec(bind, body) == [c |-> "Letrec", bind |-> bind, body |-> body]
Set(var, e) == [c |-> "Set", var |-> var, e |-> e]

UnaryClasses == {"IsBoolean", "IsFixnum", "IsNull", "IsPair", "IsProcedure",
                 "IsSymbol", "IsString", "IsList", "Display", "Car", "Cdr", "Not"}
BinaryClasses == {"Plus", "Minus", "Mult", "Div", "Expt", "Less", "LessEq", "Equal",
                  "GreaterEq", "Greater", "Cons"}
VariadicClasses == {"PlusVar", "MinusVar", "MultVar", "DivVar", "LessVar",
                    "LessEqVar", "EqualVar", "GreaterEqVar", "GreaterVar", "ListFunc"}

(***************************************************************************)
(* Outcomes.  st is "ok" for a returned value, "err" for a thrown          *)
(* RuntimeError, "overflow" when the host stack is exhausted and "ub" when *)
(* the process crashed on undefined behaviour.  env is the caller's Assoc  *)
(* variable as the call left it.                                           *)
(***************************************************************************)
Ok(v, env, h, o) == [st |-> "ok", err |-> "", v |-> v, env |-> env, h |-> h, o |-> o]
Throw(msg, env, h, o) == [st |-> "err", err |-> msg, v |-> NullPtr, env |-> env, h |-> h, o |-> o]
Abort(st, env, h, o) == [st |-> st, err |-> st, v |-> NullPtr, env |-> env, h |-> h, o |-> o]

(***************************************************************************)
(* Primitive operations (evaluation.cpp)                                   *)
(***************************************************************************)
IsNumber(v) == v.t \in {"V_INT", "V_RATIONAL"}

\* toRational, defined on numbers; the callers test IsNumber first
toRational(v) ==
    IF v.t = "V_INT" THEN [num |-> v.n, den |-> 1]
    ELSE [num |-> v.numerator, den |-> v.denominator]

NotANumber == Raise("+ is only defined for numbers")

\* the common tail of the arithmetic evalRators
demote(num, den) == IF den = 1 THEN Val(IntegerV(num)) ELSE RationalV(num, den)

Plus_evalRator(rand1, rand2) ==
    IF ~(IsNumber(rand1) /\ IsNumber(rand2)) THEN NotANumber
    ELSE LET a == toRational(rand1)
             b == toRational(rand2)
             res_num == CDiv(a.num * b.den + b.num * a.den, gcd(a.den, b.den))
             res_den == lcm(a.den, b.den)
         IN demote(res_num, res_den)

\* Minus::evalRator without the division of the numerator by the gcd
Minus_evalRator_unscaled(rand1, rand2) ==
    IF ~(IsNumber(rand1) /\ IsNumber(rand2)) THEN NotANumber
    ELSE LET a == toRational(rand1)
             b == toRational(rand2)
             res_num == a.num * b.den - b.num * a.den
             res_den == lcm(a.den, b.den)
         IN demote(res_num, res_den)

Minus_evalRator(rand1, rand2) ==
    IF ~(IsNumber(rand1) /\ IsNumber(rand2)) THEN NotANumber
    ELSE LET a == toRational(rand1)
             b == toRational(rand2)
             res_num == CDiv(a.num * b.den - b.num * a.den, gcd(a.den, b.den))
             res_den == lcm(a.den, b.den)
         IN demote(res_num, res_den)

Mult_evalRator(rand1, rand2) ==
    IF ~(IsNumber(rand1) /\ IsNumber(rand2)) THEN NotANumber
    ELSE LET a == toRational(rand1)
             b == toRational(rand2)
             r == normalize_rational(a.num * b.num, a.den * b.den)
         IN demote(r.num, r.den)

Div_evalRator(rand1, rand2) ==
    IF ~(IsNumber(rand1) /\ IsNumber(rand2)) THEN NotANumber
    ELSE LET a == toRational(rand1)
             b == toRational(rand2)
             r == normalize_rational(a.num * b.den, a.den * b.num)
         IN IF b.num = 0 THEN Raise("Division by zero")
            ELSE demote(r.num, r.den)

\* the limits of int
INT_MAX == 2147483647
INT_MIN == -INT_MAX - 1

\* x * y, computed in long long from two values of int, lies in
\* [INT_MIN, INT_MAX].  The product itself may be as large as 2^62, so the
\* test is made on the factors.
InInt(x, y) ==
    IF x = 0 \/ y = 0 THEN TRUE
    ELSE IF x = INT_MIN THEN y = 1
    ELSE IF y = INT_MIN THEN x = 1
    ELSE LET ax == Abs(x)
             ay == Abs(y)
         IN \/ ay <= INT_MAX \div ax
            \/ /\ (x > 0) # (y > 0)
               /\ ay - 1 <= INT_MAX \div ax
               /\ ax * (ay - 1) = (INT_MAX - ax) + 1

\* the value of b after b *= b has left the range of int; it is only
\* compared with the limits afterwards
Squared == [above |-> "INT_MAX"]
ExptOverflow == Raise("Integer overflow in expt")

\* the loop of Expt::evalRator: while (exp > 0) { ... }
RECURSIVE Expt_loop(_, _, _)
Expt_loop(result, b, exp) ==
    IF exp <= 0 THEN Val(IntegerV(result))
    ELSE IF exp % 2 = 1 /\ ~InInt(result, b) THEN ExptOverflow
    ELSE LET r == IF exp % 2 = 1 THEN result * b ELSE result
         IN IF ~InInt(b, b)
            THEN IF exp > 1 THEN ExptOverflow ELSE Expt_loop(r, Squared, exp \div 2)
            ELSE Expt_loop(r, b * b, exp \div 2)

\* the loop without the test exp > 1
RECURSIVE Expt_loop_eager(_, _, _)
Expt_loop_eager(result, b, exp) ==
    IF exp <= 0 THEN Val(IntegerV(result))
    ELSE IF exp % 2 = 1 /\ ~InInt(result, b) THEN ExptOverflow
    ELSE LET r == IF exp % 2 = 1 THEN result * b ELSE result
         IN IF ~InInt(b, b) THEN ExptOverflow
            ELSE Expt_loop_eager(r, b * b, exp \div 2)

Expt_evalRator_eager(rand1, rand2) ==
    IF rand1.t = "V_INT" /\ rand2.t = "V_INT"
    THEN LET base == rand1.n
             exponent == rand2.n
         IN IF exponent < 0 THEN Raise("Negative exponent not supported for integers")
            ELSE IF base = 0 /\ exponent = 0 THEN Raise("0^0 is undefined")
            ELSE Expt_loop_eager(1, base, exponent)
    ELSE Raise("Wrong typename")

Expt_evalRator(rand1, rand2) ==
    IF rand1.t = "V_INT" /\ rand2.t = "V_INT"
    THEN LET base == rand1.n
             exponent == rand2.n
         IN IF exponent < 0 THEN Raise("Negative exponent not supported for integers")
            ELSE IF base = 0 /\ exponent = 0 THEN Raise("0^0 is undefined")
            ELSE Expt_loop(1, base, exponent)
    ELSE Raise("Wrong typename")

\* -1, 0 or 1; defined on numbers
compareNumericValues(v1, v2) ==
    LET a == toRational(v1)
        b == toRational(v2)
        left_product == a.num * b.den
        right_product == b.num * a.den
    IN IF left_product < right_product THEN -1
       ELSE IF left_product > right_product THEN 1 ELSE 0

\* Less, LessEq, Equal, GreaterEq, Greater ::evalRator
Compare_evalRator(c, rand1, rand2) ==
    IF ~(IsNumber(rand1) /\ IsNumber(rand2))
    THEN Raise("Numeric comparison expects a number")
    ELSE LET cmp_result == compareNumericValues(rand1, rand2)
         IN Val(BooleanV(CASE c = "Less" -> cmp_result = -1
                           [] c = "LessEq" -> cmp_result <= 0
                           [] c = "Equal" -> cmp_result = 0
                           [] c = "GreaterEq" -> cmp_result >= 0
                           [] OTHER -> cmp_result = 1))

Cons_evalRator(rand1, rand2) == Val(PairV(rand1, rand2))

RECURSIVE ListFunc_evalRator(_)
ListFunc_evalRator(args) ==
    IF args = <<>> THEN NullV
    ELSE PairV(Head(args), ListFunc_evalRator(Tail(args)))

RECURSIVE IsList_evalRator(_)
IsList_evalRator(cur) ==
    IF cur.t = "V_NULL" THEN TRUE
    ELSE IF cur.t = "V_PAIR" THEN IsList_evalRator(cur.cdr)
    ELSE FALSE

Car_evalRator(rand) ==
    IF rand.t # "V_PAIR" THEN Raise("expects argument to be a pair") ELSE Val(rand.car)

Cdr_evalRator(rand) ==
    IF rand.t # "V_PAIR" THEN Raise("expects argument to be a pair") ELSE Val(rand.cdr)

Not_evalRator(rand) == Val(BooleanV(rand.t = "V_BOOL" /\ rand.b = FALSE))

\* the type predicates
Is_evalRator(c, rand) ==
    Val(BooleanV(CASE c = "IsBoolean" -> rand.t = "V_BOOL"
                   [] c = "IsFixnum" -> rand.t = "V_INT"
                   [] c = "IsNull" -> rand.t = "V_NULL"
                   [] c = "IsPair" -> rand.t = "V_PAIR"
                   [] c = "IsProcedure" -> rand.t = "V_PROC"
                   [] c = "IsSymbol" -> rand.t = "V_SYM"
                   [] c = "IsString" -> rand.t = "V_STRING"
                   [] OTHER -> IsList_evalRator(rand)))

\* Display::evalRator: the value handed to the printer is appended to the
\* output, one line per call
Display_evalRator(rand, o) == Append(o, rand)

\* one round of the loops of PlusVar and MinusVar (sign is 1 or -1)
addStep(sign, res_num, res_den, cur) ==
    LET com_lcm == lcm(res_den, cur.den)
    IN normalize_rational(res_num * CDiv(com_lcm, res_den)
                            + sign * cur.num * CDiv(com_lcm, cur.den),
                          com_lcm)

RECURSIVE addLoop(_, _, _, _, _)
addLoop(sign, args, i, res_num, res_den) ==
    IF i > Len(args) THEN demote(res_num, res_den)
    ELSE IF ~IsNumber(args[i]) THEN NotANumber
    ELSE LET r == addStep(sign, res_num, res_den, toRational(args[i]))
         IN addLoop(sign, args, i + 1, r.num, r.den)

PlusVar_evalRator(args) ==
    IF args = <<>> THEN Val(IntegerV(0)) ELSE addLoop(1, args, 1, 0, 1)

MinusVar_evalRator(args) ==
    IF args = <<>> THEN Raise("Minus expression expects at least one argument.")
    ELSE IF ~IsNumber(args[1]) THEN NotANumber
    ELSE LET a == toRational(args[1])
         IN IF Len(args) = 1
            THEN LET r == normalize_rational(-a.num, a.den) IN demote(r.num, r.den)
            ELSE addLoop(-1, args, 2, a.num, a.den)

RECURSIVE multLoop(_, _, _, _)
multLoop(args, i, res_num, res_den) ==
    IF i > Len(args) THEN demote(res_num, res_den)
    ELSE IF ~IsNumber(args[i]) THEN NotANumber
    ELSE LET cur == toRational(args[i])
             r == normalize_rational(res_num * cur.num, res_den * cur.den)
         IN multLoop(args, i + 1, r.num, r.den)

MultVar_evalRator(args) ==
    IF args = <<>> THEN Val(IntegerV(1)) ELSE multLoop(args, 1, 1, 1)

RECURSIVE divLoop(_, _, _, _)
divLoop(args, i, res_num, res_den) ==
    IF i > Len(args) THEN demote(res_num, res_den)
    ELSE IF ~IsNumber(args[i]) THEN NotANumber
    ELSE LET cur == toRational(args[i])
             r == normalize_rational(res_num * cur.den, res_den * cur.num)
         IN IF cur.num = 0 THEN Raise("Division by zero")
            ELSE divLoop(args, i + 1, r.num, r.den)

DivVar_evalRator(args) ==
    IF args = <<>> THEN Raise("Division expression expects at least one argument.")
    ELSE IF ~IsNumber(args[1]) THEN NotANumber
    ELSE LET a == toRational(args[1])
         IN IF Len(args) = 1
            THEN IF a.num = 0 THEN Raise("Division by zero")
                 ELSE LET r == normalize_rational(a.den, a.num)
                      IN demote(r.num, r.den)
            ELSE divLoop(args, 2, a.num, a.den)

\* the comparison a chain of operands must NOT satisfy, per variadic class
chainBreaks(c, cmp) ==
    CASE c = "LessVar" -> cmp >= 0
      [] c = "LessEqVar" -> cmp > 0
      [] c = "EqualVar" -> cmp # 0
      [] c = "GreaterEqVar" -> cmp < 0
      [] OTHER -> cmp <= 0

RECURSIVE compareLoop(_, _, _)
compareLoop(c, args, i) ==
    IF i > Len(args) - 1 THEN Val(BooleanV(TRUE))
    ELSE IF ~(IsNumber(args[i]) /\ IsNumber(args[i + 1]))
    THEN Raise("Numeric comparison expects a number")
    ELSE IF chainBreaks(c, compareNumericValues(args[i], args[i + 1]))
    THEN Val(BooleanV(FALSE))
    ELSE compareLoop(c, args, i + 1)

\* LessVar, LessEqVar, EqualVar, GreaterEqVar, GreaterVar ::evalRator
CompareVar_evalRator(c, args) ==
    IF Len(args) < 2 THEN Raise("expects at least two arguments")
    ELSE compareLoop(c, args, 1)

\* dispatch on the dynamic class of the node (the virtual evalRator call)
Unary_evalRator(c, rand) ==
    CASE c = "Car" -> Car_evalRator(rand)
      [] c = "Cdr" -> Cdr_evalRator(rand)
      [] c = "Not" -> Not_evalRator(rand)
      [] c = "Display" -> Val(VoidV)
      [] OTHER -> Is_evalRator(c, rand)

Binary_evalRator(c, rand1, rand2) ==
    CASE c = "Plus" -> Plus_evalRator(rand1, rand2)
      [] c = "Minus" -> Minus_evalRator(rand1, rand2)
      [] c = "Mult" -> Mult_evalRator(rand1, rand2)
      [] c = "Div" -> Div_evalRator(rand1, rand2)
      [] c = "Expt" -> Expt_evalRator(rand1, rand2)
      [] c = "Cons" -> Cons_evalRator(rand1, rand2)
      [] OTHER -> Compare_evalRator(c, rand1, rand2)

Variadic_evalRator(c, args) ==
    CASE c = "PlusVar" -> PlusVar_evalRator(args)
      [] c = "MinusVar" -> MinusVar_evalRator(args)
      [] c = "MultVar" -> MultVar_evalRator(args)
      [] c = "DivVar" -> DivVar_evalRator(args)
      [] c = "ListFunc" -> Val(ListFunc_evalRator(args))
      [] OTHER -> CompareVar_evalRator(c, args)

(***************************************************************************)
(* The process-wide tables                                                 *)
(***************************************************************************)
primitives ==
    [n \in {"+", "-", "*", "/", "expt", "<", "<=", "=", ">=", ">", "cons", "car", "cdr",
            "list", "not", "and", "or", "boolean?", "number?", "null?", "pair?",
            "procedure?", "symbol?", "list?", "string?", "display", "void"} |->
        CASE n = "+" -> "E_PLUS" [] n = "-" -> "E_MINUS" [] n = "*" -> "E_MUL"
          [] n = "/" -> "E_DIV" [] n = "expt" -> "E_EXPT" [] n = "<" -> "E_LT" [] n = "<=" -> "E_LE"
          [] n = "=" -> "E_EQ" [] n = ">=" -> "E_GE" [] n = ">" -> "E_GT"
          [] n = "cons" -> "E_CONS" [] n = "car" -> "E_CAR" [] n = "cdr" -> "E_CDR"
          [] n = "list" -> "E_LIST" [] n = "not" -> "E_NOT" [] n = "and" -> "E_AND"
          [] n = "or" -> "E_OR" [] n = "boolean?" -> "E_BOOLQ"
          [] n = "number?" -> "E_INTQ" [] n = "null?" -> "E_NULLQ"
          [] n = "pair?" -> "E_PAIRQ" [] n = "procedure?" -> "E_PROCQ"
          [] n = "symbol?" -> "E_SYMBOLQ" [] n = "list?" -> "E_LISTQ"
          [] n = "string?" -> "E_STRINGQ" [] n = "display" -> "E_DISPLAY"
          [] OTHER -> "E_VOID"]

reserved_words ==
    [n \in {"begin", "quote", "if", "cond", "lambda", "define", "let", "letrec", "set!"} |->
        CASE n = "begin" -> "E_BEGIN" [] n = "quote" -> "E_QUOTE" [] n = "if" -> "E_IF"
          [] n = "cond" -> "E_COND" [] n = "lambda" -> "E_LAMBDA"
          [] n = "define" -> "E_DEFINE" [] n = "let" -> "E_LET"
          [] n = "letrec" -> "E_LETREC" [] OTHER -> "E_SET"]

\* the table Var::eval builds: the expression and the parameter names of the
\* procedure that stands for a primitive
parm1 == <<"parm">>
parm2 == <<"parm1", "parm2">>
unaryOf(c) == [e |-> Unary(c, Var("parm")), ps |-> parm1]
binaryOf(c) == [e |-> Binary(c, Var("parm1"), Var("parm2")), ps |-> parm2]
variadicOf(c) == [e |-> Variadic(c, <<Var("parm1"), Var("parm2")>>), ps |-> parm2]

primitive_map(tag) ==
    CASE tag = "E_VOID" -> [e |-> MakeVoid, ps |-> <<>>]
      [] tag = "E_BOOLQ" -> unaryOf("IsBoolean")
      [] tag = "E_INTQ" -> unaryOf("IsFixnum")
      [] tag = "E_NULLQ" -> unaryOf("IsNull")
      [] tag = "E_PAIRQ" -> unaryOf("IsPair")
      [] tag = "E_PROCQ" -> unaryOf("IsProcedure")
      [] tag = "E_SYMBOLQ" -> unaryOf("IsSymbol")
      [] tag = "E_STRINGQ" -> unaryOf("IsString")
      [] tag = "E_LISTQ" -> unaryOf("IsList")
      [] tag = "E_DISPLAY" -> unaryOf("Display")
      [] tag = "E_PLUS" -> binaryOf("Plus")
      [] tag = "E_MINUS" -> binaryOf("Minus")
      [] tag = "E_MUL" -> binaryOf("Mult")
      [] tag = "E_DIV" -> binaryOf("Div")
      [] tag = "E_EXPT" -> binaryOf("Expt")
      [] tag = "E_LT" -> binaryOf("Less")
      [] tag = "E_LE" -> binaryOf("LessEq")
      [] tag = "E_EQ" -> binaryOf("Equal")
      [] tag = "E_GE" -> binaryOf("GreaterEq")
      [] tag = "E_GT" -> binaryOf("Greater")
      [] tag = "E_CONS" -> binaryOf("Cons")
      [] tag = "E_CAR" -> unaryOf("Car")
      [] tag = "E_CDR" -> unaryOf("Cdr")
      [] tag = "E_LIST" -> variadicOf("ListFunc")
      [] tag = "E_NOT" -> unaryOf("Not")
      [] tag = "E_AND" -> variadicOf("AndVar")
      [] OTHER -> variadicOf("OrVar")

(***************************************************************************)
(* Quoted data                                                             *)
(***************************************************************************)
\* index of the first "." symbol of a list of syntax nodes, 0 if none
\* (the source counts from 0 and uses -1)
RECURSIVE dotIndex(_, _)
dotIndex(stxs, i) ==
    IF i > Len(stxs) THEN 0
    ELSE IF stxs[i].k = "SymbolSyntax" /\ stxs[i].s = "." THEN i
    ELSE dotIndex(stxs, i + 1)

RECURSIVE convertSyntaxToValue(_)
\* conses the converted elements i, i-1, ..., 1 onto acc; a failure of any
\* element is the failure of the whole
RECURSIVE consOnto(_, _, _)
consOnto(stxs, i, acc) ==
    IF i = 0 THEN Val(acc)
    ELSE LET element == convertSyntaxToValue(stxs[i])
         IN IF ~element.ok THEN element
            ELSE consOnto(stxs, i - 1, PairV(element.v, acc))

convertSyntaxToValue(syntax) ==
    CASE syntax.k = "Number" -> Val(IntegerV(syntax.n))
      [] syntax.k = "RationalSyntax" -> RationalV(syntax.numerator, syntax.denominator)
      [] syntax.k = "SymbolSyntax" -> Val(SymbolV(syntax.s))
      [] syntax.k = "TrueSyntax" -> Val(BooleanV(TRUE))
      [] syntax.k = "FalseSyntax" -> Val(BooleanV(FALSE))
      [] OTHER ->
          LET dot_index == dotIndex(syntax.stxs, 1)
          IN IF dot_index # 0
             THEN IF dot_index = 1
                  THEN Raise("quote: malformed dotted list (dot cannot be the first element)")
                  ELSE IF Len(syntax.stxs) - dot_index # 1
                  THEN Raise("quote: malformed dotted list (dot must be followed by exactly one element)")
                  ELSE LET result_cdr == convertSyntaxToValue(syntax.stxs[dot_index + 1])
                       IN IF ~result_cdr.ok THEN result_cdr
                          ELSE consOnto(syntax.stxs, dot_index - 1, result_cdr.v)
             ELSE consOnto(syntax.stxs, Len(syntax.stxs), NullV)

(***************************************************************************)
(* The evaluator (evaluation.cpp).  Eval(e, env, h, o, d) is e->eval(env)  *)
(* on heap h and output o.  d describes the host: d.depth is the number of *)
(* nested procedure calls its stack still has room for, d.order the order  *)
(* in which the build evaluates the arguments of a call ("LR" or "RL"),    *)
(* d.ub what flowing off the end of a value-returning function does.       *)
(***************************************************************************)
RECURSIVE Eval(_, _, _, _, _)

\* what a call that flows off the end of a value-returning function can do
UBOutcomes ==
    {[k |-> "crash"], [k |-> "value", v |-> VoidV], [k |-> "value", v |-> BooleanV(FALSE)],
     [k |-> "value", v |-> IntegerV(0)]}

\* evaluates es[i], es[i+1], ... in this order against the same Assoc
\* variable, collecting the values in acc
RECURSIVE evalEach(_, _, _, _, _, _, _)
evalEach(es, i, acc, env, h, o, d) ==
    IF i > Len(es) THEN [st |-> "ok", err |-> "", vs |-> acc, env |-> env, h |-> h, o |-> o]
    ELSE LET r == Eval(es[i], env, h, o, d)
         IN IF r.st # "ok"
            THEN [st |-> r.st, err |-> r.err, vs |-> acc, env |-> r.env, h |-> r.h, o |-> r.o]
            ELSE evalEach(es, i + 1, Append(acc, r.v), r.env, r.h, r.o, d)

\* the outcome of a failed operand evaluation as the outcome of the form
failed(r) == [st |-> r.st, err |-> r.err, v |-> NullPtr, env |-> r.env, h |-> r.h, o |-> r.o]

\* turns the result of an evalRator into the outcome of the form
returned(p, env, h, o) == IF p.ok THEN Ok(p.v, env, h, o) ELSE Throw(p.err, env, h, o)

Unary_eval(e, env, h, o, d) ==
    LET r == Eval(e.rand, env, h, o, d)
    IN IF r.st # "ok" THEN r
       ELSE returned(Unary_evalRator(e.c, r.v), r.env, r.h,
                     IF e.c = "Display" THEN Display_evalRator(r.v, r.o) ELSE r.o)

\* the two operands are arguments of one call: the build fixes their order
Binary_eval(e, env, h, o, d) ==
    LET first == IF d.order = "LR" THEN e.rand1 ELSE e.rand2
        second == IF d.order = "LR" THEN e.rand2 ELSE e.rand1
        r1 == Eval(first, env, h, o, d)
        r2 == Eval(second, r1.env, r1.h, r1.o, d)
    IN IF r1.st # "ok" THEN r1
       ELSE IF r2.st # "ok" THEN r2
       ELSE returned(IF d.order = "LR" THEN Binary_evalRator(e.c, r1.v, r2.v)
                     ELSE Binary_evalRator(e.c, r2.v, r1.v),
                     r2.env, r2.h, r2.o)

Variadic_eval(e, env, h, o, d) ==
    LET rs == evalEach(e.rands, 1, <<>>, env, h, o, d)
    IN IF rs.st # "ok" THEN failed(rs)
       ELSE returned(Variadic_evalRator(e.c, rs.vs), rs.env, rs.h, rs.o)

\* Var::eval had it looked past placeholder frames to an outer binding
Var_eval_fall_through(e, env, h, o, d) ==
    LET filled == SelectSeq(chain(env, h), LAMBDA i : h[i].x = e.x /\ h[i].v # NullPtr)
    IN IF filled = <<>>
       THEN IF e.x \in DOMAIN primitives
            THEN LET it == primitive_map(primitives[e.x])
                 IN Ok(ProcedureV(it.ps, it.e, env), env, h, o)
            ELSE Throw("undefined variable", env, h, o)
       ELSE Ok(h[filled[1]].v, env, h, o)

Var_eval(e, env, h, o, d) ==
    LET matched_value == find(e.x, env, h)
    IN IF matched_value = NullPtr
       THEN IF e.x \in DOMAIN primitives
            THEN LET it == primitive_map(primitives[e.x])
                 IN Ok(ProcedureV(it.ps, it.e, env), env, h, o)
            ELSE Throw("undefined variable", env, h, o)
       ELSE Ok(matched_value, env, h, o)

RationalNum_eval(e, env, h, o, d) ==
    returned(RationalV(e.numerator, e.denominator), env, h, o)

Begin_eval(e, env, h, o, d) ==
    LET rs == evalEach(e.es, 1, <<>>, env, h, o, d)
    IN IF rs.st # "ok" THEN failed(rs)
       ELSE Ok(IF rs.vs = <<>> THEN VoidV ELSE rs.vs[Len(rs.vs)], rs.env, rs.h, rs.o)

Quote_eval(e, env, h, o, d) == returned(convertSyntaxToValue(e.s), env, h, o)

isFalse(v) == v.t = "V_BOOL" /\ v.b = FALSE

RECURSIVE andLoop(_, _, _, _, _, _, _)
andLoop(rands, i, lastv, env, h, o, d) ==
    IF i > Len(rands) THEN Ok(lastv, env, h, o)
    ELSE LET cur == Eval(rands[i], env, h, o, d)
         IN IF cur.st # "ok" THEN cur
            ELSE IF isFalse(cur.v) THEN Ok(BooleanV(FALSE), cur.env, cur.h, cur.o)
            ELSE andLoop(rands, i + 1, cur.v, cur.env, cur.h, cur.o, d)

\* AndVar::eval had it evaluated every operand before looking at the values
AndVar_eval_eager(e, env, h, o, d) ==
    LET rs == evalEach(e.rands, 1, <<>>, env, h, o, d)
    IN IF rs.st # "ok" THEN failed(rs)
       ELSE IF \E i \in 1..Len(rs.vs) : isFalse(rs.vs[i])
       THEN Ok(BooleanV(FALSE), rs.env, rs.h, rs.o)
       ELSE Ok(IF rs.vs = <<>> THEN BooleanV(TRUE) ELSE rs.vs[Len(rs.vs)], rs.env, rs.h, rs.o)

AndVar_eval(e, env, h, o, d) ==
    IF e.rands = <<>> THEN Ok(BooleanV(TRUE), env, h, o)
    ELSE andLoop(e.rands, 1, BooleanV(TRUE), env, h, o, d)

RECURSIVE orLoop(_, _, _, _, _, _)
orLoop(rands, i, env, h, o, d) ==
    IF i > Len(rands) THEN Ok(BooleanV(FALSE), env, h, o)
    ELSE LET cur == Eval(rands[i], env, h, o, d)
         IN IF cur.st # "ok" THEN cur
            ELSE IF ~isFalse(cur.v) THEN cur
            ELSE orLoop(rands, i + 1, cur.env, cur.h, cur.o, d)

OrVar_eval(e, env, h, o, d) ==
    IF e.rands = <<>> THEN Ok(BooleanV(FALSE), env, h, o)
    ELSE orLoop(e.rands, 1, env, h, o, d)

If_eval(e, env, h, o, d) ==
    LET cond_val == Eval(e.cond, env, h, o, d)
    IN IF cond_val.st # "ok" THEN cond_val
       ELSE IF ~isFalse(cond_val.v)
       THEN Eval(e.conseq, cond_val.env, cond_val.h, cond_val.o, d)
       ELSE Eval(e.alter, cond_val.env, cond_val.h, cond_val.o, d)

\* the body of Cond::eval is empty: control flows off the end of a function
\* that returns a Value, without having evaluated any clause
Cond_eval(e, env, h, o, d) ==
    IF d.ub.k = "crash" THEN Abort("ub", env, h, o) ELSE Ok(d.ub.v, env, h, o)

Lambda_eval(e, env, h, o, d) == Ok(ProcedureV(e.x, e.e, env), env, h, o)

\* the loop that binds parameters[i..] to args[i..] in front of param_env
RECURSIVE bindParams(_, _, _, _, _)
bindParams(parameters, args, i, param_env, h) ==
    IF i > Len(args) THEN [env |-> param_env, h |-> h]
    ELSE LET x == extend(parameters[i], args[i], param_env, h)
         IN bindParams(parameters, args, i + 1, x.env, x.h)

\* Apply::eval had it extended the caller's environment (dynamic scoping)
Apply_eval_dynamic(e, env, h, o, d) ==
    LET rator_val == Eval(e.rator, env, h, o, d)
        clos == rator_val.v
        args == evalEach(e.rand, 1, <<>>, rator_val.env, rator_val.h, rator_val.o, d)
        p == bindParams(clos.parameters, args.vs, 1, args.env, args.h)
        body == Eval(clos.e, p.env, p.h, args.o, [d EXCEPT !.depth = @ - 1])
    IN IF rator_val.st # "ok" THEN rator_val
       ELSE IF clos.t # "V_PROC"
       THEN Throw("Attempt to apply a non-procedure", rator_val.env, rator_val.h, rator_val.o)
       ELSE IF args.st # "ok" THEN failed(args)
       ELSE IF Len(args.vs) # Len(clos.parameters)
       THEN Throw("Wrong number of arguments", args.env, args.h, args.o)
       ELSE IF d.depth = 0 THEN Abort("overflow", args.env, args.h, args.o)
       ELSE [body EXCEPT !.env = args.env]

\* Apply::eval had it compared the counts before evaluating the operands
Apply_eval_count_first(e, env, h, o, d) ==
    LET rator_val == Eval(e.rator, env, h, o, d)
        clos == rator_val.v
        args == evalEach(e.rand, 1, <<>>, rator_val.env, rator_val.h, rator_val.o, d)
        p == bindParams(clos.parameters, args.vs, 1, clos.env, args.h)
        body == Eval(clos.e, p.env, p.h, args.o, [d EXCEPT !.depth = @ - 1])
    IN IF rator_val.st # "ok" THEN rator_val
       ELSE IF clos.t # "V_PROC"
       THEN Throw("Attempt to apply a non-procedure", rator_val.env, rator_val.h, rator_val.o)
       ELSE IF Len(e.rand) # Len(clos.parameters)
       THEN Throw("Wrong number of arguments", rator_val.env, rator_val.h, rator_val.o)
       ELSE IF args.st # "ok" THEN failed(args)
       ELSE IF d.depth = 0 THEN Abort("overflow", args.env, args.h, args.o)
       ELSE [body EXCEPT !.env = args.env]

\* Apply::eval had it handed the environment of the body back to the caller
Apply_eval_leaking(e, env, h, o, d) ==
    LET rator_val == Eval(e.rator, env, h, o, d)
        clos == rator_val.v
        args == evalEach(e.rand, 1, <<>>, rator_val.env, rator_val.h, rator_val.o, d)
        p == bindParams(clos.parameters, args.vs, 1, clos.env, args.h)
        body == Eval(clos.e, p.env, p.h, args.o, [d EXCEPT !.depth = @ - 1])
    IN IF rator_val.st # "ok" THEN rator_val
       ELSE IF clos.t # "V_PROC"
       THEN Throw("Attempt to apply a non-procedure", rator_val.env, rator_val.h, rator_val.o)
       ELSE IF args.st # "ok" THEN failed(args)
       ELSE IF Len(args.vs) # Len(clos.parameters)
       THEN Throw("Wrong number of arguments", args.env, args.h, args.o)
       ELSE IF d.depth = 0 THEN Abort("overflow", args.env, args.h, args.o)
       ELSE body

Apply_eval(e, env, h, o, d) ==
    LET rator_val == Eval(e.rator, env, h, o, d)
        clos == rator_val.v
        args == evalEach(e.rand, 1, <<>>, rator_val.env, rator_val.h, rator_val.o, d)
        p == bindParams(clos.parameters, args.vs, 1, clos.env, args.h)
        body == Eval(clos.e, p.env, p.h, args.o, [d EXCEPT !.depth = @ - 1])
    IN IF rator_val.st # "ok" THEN rator_val
       ELSE IF clos.t # "V_PROC"
       THEN Throw("Attempt to apply a non-procedure", rator_val.env, rator_val.h, rator_val.o)
       ELSE IF args.st # "ok" THEN failed(args)
       ELSE IF Len(args.vs) # Len(clos.parameters)
       THEN Throw("Wrong number of arguments", args.env, args.h, args.o)
       ELSE IF d.depth = 0 THEN Abort("overflow", args.env, args.h, args.o)
       ELSE [body EXCEPT !.env = args.env]

\* Define::eval had it evaluated the expression before adding the frame
Define_eval_late(e, env, h, o, d) ==
    LET r == Eval(e.e, env, h, o, d)
        rec_env == extend(e.var, r.v, r.env, r.h)
    IN IF r.st # "ok" THEN r
       ELSE Ok(VoidV, rec_env.env, rec_env.h, r.o)

\* Define::eval had it assigned env = rec_env before evaluating the expression
Define_eval_bound_first(e, env, h, o, d) ==
    LET rec_env == extend(e.var, NullPtr, env, h)
        r == Eval(e.e, rec_env.env, rec_env.h, o, d)
        m == modify(e.var, r.v, r.env, r.h)
    IN IF r.st # "ok" THEN r
       ELSE Ok(VoidV, r.env, m.h, r.o)

Define_eval(e, env, h, o, d) ==
    LET rec_env == extend(e.var, NullPtr, env, h)
        r == Eval(e.e, rec_env.env, rec_env.h, o, d)
        m == modify(e.var, r.v, r.env, r.h)
    IN IF r.st # "ok" THEN [r EXCEPT !.env = env]
       ELSE Ok(VoidV, r.env, m.h, r.o)

\* the loop of Let::eval: binding expressions see env, frames go to let_env
RECURSIVE letLoop(_, _, _, _, _, _, _)
letLoop(bind, i, let_env, env, h, o, d) ==
    IF i > Len(bind)
    THEN [st |-> "ok", err |-> "", v |-> NullPtr, let_env |-> let_env, env |-> env, h |-> h, o |-> o]
    ELSE LET r == Eval(bind[i][2], env, h, o, d)
             x == extend(bind[i][1], r.v, let_env, r.h)
         IN IF r.st # "ok"
            THEN [st |-> r.st, err |-> r.err, v |-> NullPtr, let_env |-> let_env,
                  env |-> r.env, h |-> r.h, o |-> r.o]
            ELSE letLoop(bind, i + 1, x.env, r.env, x.h, r.o, d)

\* Let::eval had each binding expression seen the frames before it (let*)
Let_eval_sequential(e, env, h, o, d) ==
    LET b == letLoop(e.bind, 1, env, env, h, o, d)
        first == Eval(e.bind[1][2], env, h, o, d)
        x1 == extend(e.bind[1][1], first.v, env, first.h)
        second == Eval(e.bind[2][2], x1.env, x1.h, first.o, d)
        x2 == extend(e.bind[2][1], second.v, x1.env, second.h)
        body == Eval(e.body, b.let_env, b.h, b.o, d)
        body2 == Eval(e.body, x2.env, x2.h, second.o, d)
    IN IF Len(e.bind) # 2
       THEN IF b.st # "ok" THEN failed(b) ELSE [body EXCEPT !.env = b.env]
       ELSE IF first.st # "ok" THEN first
       ELSE IF second.st # "ok" THEN [second EXCEPT !.env = first.env]
       ELSE [body2 EXCEPT !.env = first.env]

Let_eval(e, env, h, o, d) ==
    LET b == letLoop(e.bind, 1, env, env, h, o, d)
        body == Eval(e.body, b.let_env, b.h, b.o, d)
    IN IF b.st # "ok" THEN failed(b)
       ELSE [body EXCEPT !.env = b.env]

\* first loop of Letrec::eval: one placeholder frame per binding
RECURSIVE letrecExtend(_, _, _, _)
letrecExtend(bind, i, rec_env, h) ==
    IF i > Len(bind) THEN [env |-> rec_env, h |-> h]
    ELSE LET x == extend(bind[i][1], NullPtr, rec_env, h)
         IN letrecExtend(bind, i + 1, x.env, x.h)

\* second loop: evaluate in rec_env and store into the placeholder
RECURSIVE letrecFill(_, _, _, _, _, _)
letrecFill(bind, i, rec_env, h, o, d) ==
    IF i > Len(bind) THEN Ok(NullPtr, rec_env, h, o)
    ELSE LET val == Eval(bind[i][2], rec_env, h, o, d)
             m == modify(bind[i][1], val.v, val.env, val.h)
         IN IF val.st # "ok" THEN val
            ELSE letrecFill(bind, i + 1, val.env, m.h, val.o, d)

\* Letrec::eval had it evaluated the binding expressions in the original
\* environment, as Let does
Letrec_eval_as_let(e, env, h, o, d) ==
    LET b == letLoop(e.bind, 1, env, env, h, o, d)
        body == Eval(e.body, b.let_env, b.h, b.o, d)
    IN IF b.st # "ok" THEN [failed(b) EXCEPT !.env = env]
       ELSE [body EXCEPT !.env = env]

Letrec_eval(e, env, h, o, d) ==
    LET x == letrecExtend(e.bind, 1, env, h)
        f == letrecFill(e.bind, 1, x.env, x.h, o, d)
        body == Eval(e.body, f.env, f.h, f.o, d)
    IN IF f.st # "ok" THEN [f EXCEPT !.env = env]
       ELSE [body EXCEPT !.env = env]

\* Set::eval had it shadowed the name with a new frame instead of storing
\* into the existing one
Set_eval_shadow(e, env, h, o, d) ==
    LET r == Eval(e.e, env, h, o, d)
        x == extend(e.var, r.v, r.env, r.h)
    IN IF r.st # "ok" THEN r
       ELSE IF ~bound(e.var, r.env, r.h) THEN Throw("undefined variable", r.env, r.h, r.o)
       ELSE Ok(VoidV, x.env, x.h, r.o)

Set_eval(e, env, h, o, d) ==
    LET r == Eval(e.e, env, h, o, d)
        m == modify(e.var, r.v, r.env, r.h)
    IN IF r.st # "ok" THEN r
       ELSE IF ~m.ok THEN Throw("undefined variable", r.env, r.h, r.o)
       ELSE Ok(VoidV, r.env, m.h, r.o)

\* the virtual call e->eval(env)
Eval(e, env, h, o, d) ==
    CASE e.c = "Fixnum" -> Ok(IntegerV(e.n), env, h, o)
      [] e.c = "RationalNum" -> RationalNum_eval(e, env, h, o, d)
      [] e.c = "True" -> Ok(BooleanV(TRUE), env, h, o)
      [] e.c = "False" -> Ok(BooleanV(FALSE), env, h, o)
      [] e.c = "MakeVoid" -> Ok(VoidV, env, h, o)
      [] e.c = "Var" -> Var_eval(e, env, h, o, d)
      [] e.c = "Begin" -> Begin_eval(e, env, h, o, d)
      [] e.c = "Quote" -> Quote_eval(e, env, h, o, d)
      [] e.c = "AndVar" -> AndVar_eval(e, env, h, o, d)
      [] e.c = "OrVar" -> OrVar_eval(e, env, h, o, d)
      [] e.c = "If" -> If_eval(e, env, h, o, d)
      [] e.c = "Cond" -> Cond_eval(e, env, h, o, d)
      [] e.c = "Lambda" -> Lambda_eval(e, env, h, o, d)
      [] e.c = "Apply" -> Apply_eval(e, env, h, o, d)
      [] e.c = "Define" -> Define_eval(e, env, h, o, d)
      [] e.c = "Let" -> Let_eval(e, env, h, o, d)
      [] e.c = "Letrec" -> Letrec_eval(e, env, h, o, d)
      [] e.c = "Set" -> Set_eval(e, env, h, o, d)
      [] e.c \in UnaryClasses -> Unary_eval(e, env, h, o, d)
      [] e.c \in BinaryClasses -> Binary_eval(e, env, h, o, d)
      [] OTHER -> Variadic_eval(e, env, h, o, d)

(***************************************************************************)
(* The translator (parser.cpp).  The Assoc argument of parse is never read *)
(* by the source and is left out.                                          *)
(***************************************************************************)
Parsed(e) == [ok |-> TRUE, err |-> "", e |-> e]
Rejected(msg) == [ok |-> FALSE, err |-> msg, e |-> [c |-> "none"]]

\* is_valid_variable_name on the symbols of this model: "." is the only one
\* that starts with a digit, '.' or '@' or contains one of # ' " `
is_valid_variable_name(name) == name # "."

RECURSIVE parse(_)

\* parses stxs[i..] in order; the first failure is the failure of the whole
RECURSIVE parseEach(_, _, _)
parseEach(stxs, i, acc) ==
    IF i > Len(stxs) THEN [ok |-> TRUE, err |-> "", es |-> acc]
    ELSE LET r == parse(stxs[i])
         IN IF ~r.ok THEN [ok |-> FALSE, err |-> r.err, es |-> acc]
            ELSE parseEach(stxs, i + 1, Append(acc, r.e))

SymbolSyntax_parse(stx) ==
    IF ~is_valid_variable_name(stx.s) THEN Rejected("Invalid variable name")
    ELSE Parsed(Var(stx.s))

\* a primitive that has a two-operand class and a variadic class
binaryOrVar(least, bin, var, parameters) ==
    IF Len(parameters) < least THEN Rejected("expects at least 1 or 2 arguments")
    ELSE IF Len(parameters) = 2 THEN Parsed(Binary(bin, parameters[1], parameters[2]))
    ELSE Parsed(Variadic(var, parameters))

exactly1(c, parameters) ==
    IF Len(parameters) # 1 THEN Rejected("expects exactly 1 argument")
    ELSE Parsed(Unary(c, parameters[1]))

exactly2(c, parameters) ==
    IF Len(parameters) # 2 THEN Rejected("expects exactly 2 arguments")
    ELSE Parsed(Binary(c, parameters[1], parameters[2]))

\* the switch over primitives[op]
parsePrimitive(op_type, parameters) ==
    CASE op_type = "E_PLUS" -> binaryOrVar(2, "Plus", "PlusVar", parameters)
      [] op_type = "E_MINUS" -> binaryOrVar(1, "Minus", "MinusVar", parameters)
      [] op_type = "E_MUL" -> binaryOrVar(2, "Mult", "MultVar", parameters)
      [] op_type = "E_DIV" -> binaryOrVar(1, "Div", "DivVar", parameters)
      [] op_type = "E_EXPT" -> exactly2("Expt", parameters)
      [] op_type = "E_LT" -> binaryOrVar(2, "Less", "LessVar", parameters)
      [] op_type = "E_LE" -> binaryOrVar(2, "LessEq", "LessEqVar", parameters)
      [] op_type = "E_EQ" -> binaryOrVar(2, "Equal", "EqualVar", parameters)
      [] op_type = "E_GE" -> binaryOrVar(2, "GreaterEq", "GreaterEqVar", parameters)
      [] op_type = "E_GT" -> binaryOrVar(2, "Greater", "GreaterVar", parameters)
      [] op_type = "E_CONS" -> exactly2("Cons", parameters)
      [] op_type = "E_CAR" -> exactly1("Car", parameters)
      [] op_type = "E_CDR" -> exactly1("Cdr", parameters)
      [] op_type = "E_LIST" -> Parsed(Variadic("ListFunc", parameters))
      [] op_type = "E_NOT" -> exactly1("Not", parameters)
      [] op_type = "E_AND" -> Parsed(Variadic("AndVar", parameters))
      [] op_type = "E_OR" -> Parsed(Variadic("OrVar", parameters))
      [] op_type = "E_BOOLQ" -> exactly1("IsBoolean", parameters)
      [] op_type = "E_INTQ" -> exactly1("IsFixnum", parameters)
      [] op_type = "E_NULLQ" -> exactly1("IsNull", parameters)
      [] op_type = "E_PAIRQ" -> exactly1("IsPair", parameters)
      [] op_type = "E_PROCQ" -> exactly1("IsProcedure", parameters)
      [] op_type = "E_SYMBOLQ" -> exactly1("IsSymbol", parameters)
      [] op_type = "E_LISTQ" -> exactly1("IsList", parameters)
      [] op_type = "E_STRINGQ" -> exactly1("IsString", parameters)
      [] op_type = "E_DISPLAY" -> exactly1("Display", parameters)
      [] OTHER -> IF Len(parameters) # 0 THEN Rejected("void expects exactly 0 arguments")
                  ELSE Parsed(MakeVoid)

\* the names of a list of syntax nodes that must all be symbols
allSymbols(stxs) == \A i \in 1..Len(stxs) : stxs[i].k = "SymbolSyntax"
symbolNames(stxs) == [i \in 1..Len(stxs) |-> stxs[i].s]

\* one expression, or a Begin around several (lambda, let and letrec bodies)
bodyOf(es) == IF Len(es) = 1 THEN es[1] ELSE Begin(es)

\* dynamic_cast<Symbol*> of a syntax node: Symbol is the runtime value class
\* of value.cpp, which no syntax node is an instance of
castToSymbol(stx) == stx.k = "Symbol"

\* the clauses of a cond, i counting the clause of stxs being translated
RECURSIVE parseClauses(_, _, _, _)
parseClauses(stxs, i, is_else, clauses) ==
    IF i > Len(stxs) THEN Parsed(Cond(clauses))
    ELSE IF stxs[i].k # "List" THEN Rejected("Cond clause must be a list")
    ELSE IF stxs[i].stxs = <<>> THEN Rejected("Empty clause in cond expression")
    ELSE LET clause_list == stxs[i].stxs
             first == castToSymbol(clause_list[1]) /\ clause_list[1].s = "else"
             clause == IF first THEN parseEach(Tail(clause_list), 1, <<>>)
                       ELSE parseEach(clause_list, 1, <<>>)
         IN IF ~clause.ok THEN Rejected(clause.err)
            ELSE IF (is_else \/ first) /\ i < Len(stxs)
            THEN Rejected("Else clause can only appear as the last clause in a cond expression")
            ELSE parseClauses(stxs, i + 1, is_else \/ first, Append(clauses, clause.es))

\* the (name expr) pairs of let and letrec
RECURSIVE parseBindings(_, _, _)
parseBindings(stxs, i, bind) ==
    IF i > Len(stxs) THEN [ok |-> TRUE, err |-> "", bind |-> bind]
    ELSE IF stxs[i].k # "List" \/ Len(stxs[i].stxs) # 2
    THEN [ok |-> FALSE, err |-> "each binding must be a (variable expression) pair", bind |-> bind]
    ELSE IF stxs[i].stxs[1].k # "SymbolSyntax"
    THEN [ok |-> FALSE, err |-> "variable in a binding must be a symbol", bind |-> bind]
    ELSE LET expr == parse(stxs[i].stxs[2])
         IN IF ~expr.ok THEN [ok |-> FALSE, err |-> expr.err, bind |-> bind]
            ELSE parseBindings(stxs, i + 1, Append(bind, <<stxs[i].stxs[1].s, expr.e>>))

\* the switch over reserved_words[op]; stxs is the whole form
parseReserved(op, stxs) ==
    LET w == reserved_words[op]
    IN CASE w = "E_BEGIN" ->
              LET body_expr == parseEach(Tail(stxs), 1, <<>>)
              IN IF ~body_expr.ok THEN Rejected(body_expr.err) ELSE Parsed(Begin(body_expr.es))
         [] w = "E_QUOTE" ->
              IF Len(stxs) # 2 THEN Rejected("Wrong number of arguments for quote")
              ELSE Parsed(Quote(stxs[2]))
         [] w = "E_IF" ->
              IF Len(stxs) # 4 THEN Rejected("Wrong numbrt of arguments for if")
              ELSE LET es == parseEach(Tail(stxs), 1, <<>>)
                   IN IF ~es.ok THEN Rejected(es.err)
                      ELSE Parsed(If(es.es[1], es.es[2], es.es[3]))
         [] w = "E_COND" ->
              IF Len(stxs) < 2 THEN Rejected("Wrong numbrt of arguments for cond")
              ELSE parseClauses(Tail(stxs), 1, FALSE, <<>>)
         [] w = "E_LAMBDA" ->
              IF Len(stxs) < 3 THEN Rejected("lambda: too few arguments.")
              ELSE IF stxs[2].k # "List" THEN Rejected("lambda: parameters must be a list.")
              ELSE IF ~allSymbols(stxs[2].stxs) THEN Rejected("lambda: parameters must be symbols.")
              ELSE LET body_exprs == parseEach(Tail(Tail(stxs)), 1, <<>>)
                   IN IF ~body_exprs.ok THEN Rejected(body_exprs.err)
                      ELSE Parsed(Lambda(symbolNames(stxs[2].stxs), bodyOf(body_exprs.es)))
         [] w = "E_DEFINE" ->
              IF Len(stxs) # 3 THEN Rejected("define: wrong number of arguments")
              ELSE IF stxs[2].k = "List"
              THEN IF stxs[2].stxs = <<>> THEN Rejected("define: function name missing")
                   ELSE IF stxs[2].stxs[1].k # "SymbolSyntax"
                   THEN Rejected("define: function name must be a symbol")
                   ELSE IF ~allSymbols(Tail(stxs[2].stxs))
                   THEN Rejected("define: parameter must be a symbol")
                   ELSE LET body == parse(stxs[3])
                        IN IF ~body.ok THEN body
                           ELSE Parsed(Define(stxs[2].stxs[1].s,
                                              Lambda(symbolNames(Tail(stxs[2].stxs)), body.e)))
              ELSE IF stxs[2].k # "SymbolSyntax"
              THEN Rejected("define: variable name must be a symbol")
              ELSE LET expr == parse(stxs[3])
                   IN IF ~expr.ok THEN expr ELSE Parsed(Define(stxs[2].s, expr.e))
         [] w \in {"E_LET", "E_LETREC"} ->
              IF Len(stxs) < 3 THEN Rejected("bad syntax, requires bindings and a body")
              ELSE IF stxs[2].k # "List" THEN Rejected("bindings must be in a list")
              ELSE LET bind == parseBindings(stxs[2].stxs, 1, <<>>)
                       body_exprs == parseEach(Tail(Tail(stxs)), 1, <<>>)
                   IN IF ~bind.ok THEN Rejected(bind.err)
                      ELSE IF ~body_exprs.ok THEN Rejected(body_exprs.err)
                      ELSE IF w = "E_LET" THEN Parsed(Let(bind.bind, bodyOf(body_exprs.es)))
                      ELSE Parsed(Letrec(bind.bind, bodyOf(body_exprs.es)))
         [] OTHER ->
              IF Len(stxs) # 3 THEN Rejected("set!: bad syntax, requires a variable and an expression")
              ELSE IF stxs[2].k # "SymbolSyntax" THEN Rejected("set!: variable must be a symbol")
              ELSE LET expr == parse(stxs[3])
                   IN IF ~expr.ok THEN expr ELSE Parsed(Set(stxs[2].s, expr.e))

List_parse(stx) ==
    LET stxs == stx.stxs
        rands == parseEach(Tail(stxs), 1, <<>>)
    IN IF stxs = <<>> THEN Parsed(Quote(List(<<>>)))
       ELSE IF stxs[1].k # "SymbolSyntax"
       THEN LET head == parse(stxs[1])
            IN IF ~rands.ok THEN Rejected(rands.err)
               ELSE IF ~head.ok THEN head
               ELSE Parsed(Apply(head.e, rands.es))
       ELSE IF stxs[1].s \in DOMAIN primitives
       THEN IF ~rands.ok THEN Rejected(rands.err)
            ELSE parsePrimitive(primitives[stxs[1].s], rands.es)
       ELSE IF stxs[1].s \in DOMAIN reserved_words
       THEN parseReserved(stxs[1].s, stxs)
       ELSE IF ~rands.ok THEN Rejected(rands.err)
       ELSE Parsed(Apply(Var(stxs[1].s), rands.es))

\* the virtual call stx->parse(env)
parse(stx) ==
    CASE stx.k = "Number" -> Parsed(Fixnum(stx.n))
      [] stx.k = "RationalSyntax" -> Parsed(RationalNum(stx.numerator, stx.denominator))
      [] stx.k = "SymbolSyntax" -> SymbolSyntax_parse(stx)
      [] stx.k = "TrueSyntax" -> Parsed(True)
      [] stx.k = "FalseSyntax" -> Parsed(False)
      [] OTHER -> List_parse(stx)

(***************************************************************************)
(* Programs: the syntax trees the sessions are made of                     *)
(***************************************************************************)
Sym(s) == SymbolSyntax(s)
Form2(op, a) == List(<<Sym(op), a>>)
Form3(op, a, b) == List(<<Sym(op), a, b>>)
Call0(f) == List(<<Sym(f)>>)
Call1(f, a) == List(<<Sym(f), a>>)
Quoted12 == Form2("quote", List(<<Number(1), Number(2)>>))

\* (define x n), and (define x (begin (define v 1) n)) for v = x and v = y
NestedDefine(inner) ==
    Form3("define", Sym("x"),
          List(<<Sym("begin"), Form3("define", Sym(inner), Number(1)), Number(MaxVal)>>))
DefineVarForms ==
    {Form3("define", Sym("x"), Number(n)) : n \in 1..MaxVal}
    \cup {NestedDefine("x"), NestedDefine("y")}

\* (define (count n) (if (= n 0) 0 (count (- n 1))))
CountDef ==
    Form3("define", List(<<Sym("count"), Sym("n")>>),
          List(<<Sym("if"), Form3("=", Sym("n"), Number(0)), Number(0),
                 Call1("count", Form3("-", Sym("n"), Number(1)))>>))

GetX == Form3("define", List(<<Sym("f")>>), Sym("x"))             \* (define (f) x)
DefineProcForms ==
    {GetX,
     Form3("define", List(<<Sym("f")>>), Call0("g")),            \* (define (f) (g))
     Form3("define", List(<<Sym("g")>>), Number(1)),             \* (define (g) 1)
     CountDef,
     Form3("define", List(<<Sym("car"), Sym("p")>>), Number(42))} \* (define (car p) 42)

\* (set! x n), and (set! z n) for a name no form ever binds
SetForms ==
    {Form3("set!", Sym("x"), Number(n)) : n \in 1..MaxVal}
    \cup {Form3("set!", Sym("z"), Number(1))}

\* the bare variables x (defined and assigned by the forms above) and y
VarForms == {Sym("x"), Sym("y")}

\* a value no define or set! of the session stores
Other == MaxVal + 5

\* (f), (let ((x 7)) (f)) and ((lambda (x) (f)) 7)
CallF == Call0("f")
LetCallF == Form3("let", List(<<List(<<Sym("x"), Number(Other)>>)>>), Call0("f"))
LambdaCallF == List(<<Form3("lambda", List(<<Sym("x")>>), Call0("f")), Number(Other)>>)
CountCalls == {Call1("count", Number(k)) : k \in 0..MaxN}
CallForms == {CallF, Call0("g"), LetCallF, LambdaCallF} \cup CountCalls

\* (let ((x 1)) (let ((x (+ x 1))) x))
LetNested ==
    Form3("let", List(<<List(<<Sym("x"), Number(1)>>)>>),
          Form3("let", List(<<List(<<Sym("x"), Form3("+", Sym("x"), Number(1))>>)>>), Sym("x")))
\* (let ((x 1)) (begin (let ((x (+ x 1))) x) x))
LetAfter ==
    Form3("let", List(<<List(<<Sym("x"), Number(1)>>)>>),
          Form3("begin",
                Form3("let", List(<<List(<<Sym("x"), Form3("+", Sym("x"), Number(1))>>)>>), Sym("x")),
                Sym("x")))
\* (let ((x 7) (y x)) y)
LetPair ==
    Form3("let", List(<<List(<<Sym("x"), Number(Other)>>), List(<<Sym("y"), Sym("x")>>)>>), Sym("y"))
\* (let ((y 7)) x)
LetOuter == Form3("let", List(<<List(<<Sym("y"), Number(Other)>>)>>), Sym("x"))
LetForms == {LetNested, LetAfter, LetPair, LetOuter}

\* (lambda (n) (if (= n 0) base (other (- n 1))))
ParityLambda(base, other) ==
    Form3("lambda", List(<<Sym("n")>>),
          List(<<Sym("if"), Form3("=", Sym("n"), Number(0)), base,
                 Call1(other, Form3("-", Sym("n"), Number(1)))>>))

\* (letrec ((even? ...) (odd? ...)) (who n))
ParityForm(who, n) ==
    Form3("letrec",
          List(<<List(<<Sym("even?"), ParityLambda(TrueSyntax, "odd?")>>),
                 List(<<Sym("odd?"), ParityLambda(FalseSyntax, "even?")>>)>>),
          Call1(who, Number(n)))

LetrecForms == {ParityForm(who, n) : who \in {"even?", "odd?"}, n \in 0..MaxN}

\* operand i of an and / or form announces itself and is #f or the number
\* i: (begin (display i) #f) or (begin (display i) i)
Announce(i, truthy) ==
    List(<<Sym("begin"), Form2("display", Number(i)), IF truthy THEN Number(i) ELSE FalseSyntax>>)
RandLists == UNION {[1..n -> BOOLEAN] : n \in 0..MaxRands}
AndOrForm(op, vs) == List(<<Sym(op)>> \o [i \in 1..Len(vs) |-> Announce(i, vs[i])])
AndOrForms == {AndOrForm(op, vs) : op \in {"and", "or"}, vs \in RandLists}

\* (cond (test_1 (display 1) 1) ... ) with an optional (else (display 0) 0);
\* test_i is #f or the number 5
CondClause(i, truthy) ==
    List(<<IF truthy THEN Number(5) ELSE FalseSyntax, Form2("display", Number(i)), Number(i)>>)
ElseClause == List(<<Sym("else"), Form2("display", Number(0)), Number(0)>>)
CondTests == UNION {[1..n -> BOOLEAN] : n \in 1..MaxClauses}
CondForm(ts, withElse) ==
    List(<<Sym("cond")>> \o [i \in 1..Len(ts) |-> CondClause(i, ts[i])]
         \o (IF withElse THEN <<ElseClause>> ELSE <<>>))
CondForms == {CondForm(ts, withElse) : ts \in CondTests, withElse \in BOOLEAN}

\* cond forms whose else clause is followed by k >= 1 more clauses:
\* (cond (test_1 ...) ... (else (display 0) 0) (5 (display 9) 9) ...)
MisplacedElse(ts, k) ==
    List(<<Sym("cond")>> \o [i \in 1..Len(ts) |-> CondClause(i, ts[i])] \o <<ElseClause>>
         \o [i \in 1..k |-> CondClause(9, TRUE)])
ElseTests == UNION {[1..n -> BOOLEAN] : n \in 0..MaxClauses}
MisplacedElseForms == {MisplacedElse(ts, k) : ts \in ElseTests, k \in 1..MaxClauses}

\* (define (h p...) b1 ... bn) and (define h (lambda (p...) b1 ... bn))
ParamLists == {<<>>, <<Sym("x")>>, <<Sym("x"), Sym("y")>>}
BodyLists == UNION {[1..n -> {Number(1), Sym("x")}] : n \in 1..MaxBodies}
Sugar(ps, bs) == List(<<Sym("define"), List(<<Sym("h")>> \o ps)>> \o bs)
Desugared(ps, bs) == Form3("define", Sym("h"), List(<<Sym("lambda"), List(ps)>> \o bs))
SugarForms == {Sugar(ps, bs) : ps \in ParamLists, bs \in BodyLists}

\* quoted data with an ill-placed dot: (. 1), (1 .), (1 . 2 3), (1 (. 1)),
\* alone and in positions that are evaluated late or never
Dot == Sym(".")
MalformedData ==
    {List(<<Dot, Number(1)>>), List(<<Number(1), Dot>>),
     List(<<Number(1), Dot, Number(2), Number(3)>>),
     List(<<Number(1), List(<<Dot, Number(1)>>)>>)}
QuoteContexts(q) ==
    {q,
     Form3("begin", Form2("display", Number(1)), q),             \* (begin (display 1) q)
     List(<<Sym("if"), FalseSyntax, q, Number(2)>>),             \* (if #f q 2)
     Form3("lambda", List(<<>>), q)}                             \* (lambda () q)
MalformedQuoteForms == UNION {QuoteContexts(Form2("quote", d)) : d \in MalformedData}

\* quoted lists: proper lists (e1 ... en), dotted lists (e1 ... en . t)
\* whose tail is an atom, and dotted lists whose tail is itself a list
QuoteElems ==
    {Number(1), Number(2), Number(3), Sym("a"), List(<<Number(1), Number(-12)>>)}
AtomTails == {Number(3), Sym("a")}
ListTails ==
    {List(<<>>), List(<<Number(2), Number(3)>>), List(<<Number(2), Dot, Number(3)>>)}
ElemLists(least) == UNION {[1..n -> QuoteElems] : n \in least..MaxLen}
ProperData == {List(es) : es \in ElemLists(0)}
Dotted(es, t) == List(es \o <<Dot, t>>)
AtomDottedData == {Dotted(es, t) : es \in ElemLists(1), t \in AtomTails}
ListDottedData == {Dotted(es, t) : es \in ElemLists(1), t \in ListTails}
QuoteData == ProperData \cup AtomDottedData \cup ListDottedData
QuoteForms == {Form2("quote", d) : d \in QuoteData}

\* a primitive written in operator position, (p a ...), and the same
\* primitive passed as a value and called, ((lambda (op) (op a ...)) p)
Direct(p, rands) == List(<<Sym(p)>> \o rands)
FirstClass(p, rands) ==
    List(<<Form3("lambda", List(<<Sym("op")>>), List(<<Sym("op")>> \o rands)), Sym(p)>>)
PrimitiveCalls ==
    {<<"+", <<Number(1), Number(2)>>>>, <<"+", <<Number(1), Number(2), Number(3)>>>>,
     <<"list", <<Number(1), Number(2)>>>>, <<"list", <<Number(1), Number(2), Number(3)>>>>,
     <<"list", <<>>>>, <<"-", <<Number(4)>>>>, <<"*", <<Number(2), Number(3)>>>>,
     <<"<", <<Number(1), Number(2)>>>>, <<"cons", <<Number(1), Number(2)>>>>,
     <<"car", <<Quoted12>>>>, <<"cdr", <<Quoted12>>>>, <<"not", <<FalseSyntax>>>>,
     <<"null?", <<Quoted12>>>>, <<"and", <<Number(1), FalseSyntax>>>>,
     <<"or", <<FalseSyntax, Number(5)>>>>}
PrimitiveForms ==
    {Direct(c[1], c[2]) : c \in PrimitiveCalls} \cup {FirstClass(c[1], c[2]) : c \in PrimitiveCalls}

\* numeric literals: the integers and the fractions n/d the reader hands
\* over as written, a zero or negative denominator included
Ints == {Number(n) : n \in -MaxNum..MaxNum}
Fractions == {RationalSyntax(n, d) : n \in -MaxNum..MaxNum, d \in 1..MaxDen}
Operands == Ints \cup Fractions
RationalLiterals == {RationalSyntax(n, d) : n \in -MaxNum..MaxNum, d \in -MaxDen..MaxDen}
LiteralForms ==
    RationalLiterals \cup {Form2("quote", List(<<r, Number(1)>>)) : r \in RationalLiterals}

\* (op x y) for the four arithmetic primitives
ArithOps == {"+", "-", "*", "/"}
ArithForms == {Direct(op, <<x, y>>) : op \in ArithOps, x \in Operands, y \in Operands}

\* (= (- (+ x y) y) x) and (= (/ (* x y) y) x)
RoundTrip(op, inv, x, y) == Form3("=", Form3(inv, Form3(op, x, y), y), x)
RoundTripForms ==
    {RoundTrip("+", "-", x, y) : x \in Operands, y \in Operands}
    \cup {RoundTrip("*", "/", x, y) : x \in Operands, y \in Operands}

\* (expt b e)
RECURSIVE Doubles(_)
Doubles(p) == IF p > INT_MAX \div 2 THEN {p} ELSE {p} \cup Doubles(2 * p)
ExptBases ==
    (-MaxBase..MaxBase) \cup Doubles(1) \cup {-p : p \in Doubles(1)}
    \cup {INT_MIN, INT_MIN + 1, INT_MAX - 1, INT_MAX}
ExptExps == -1..MaxExp
ExptForms == {Direct("expt", <<Number(b), Number(e)>>) : b \in ExptBases, e \in ExptExps}

\* (define x 0), the first form of the sessions that watch the order of steps
DefineX0 == Form3("define", Sym("x"), Number(0))

\* operand i announces itself and then either yields i or stores i in x:
\* (begin (display i) i) and (begin (display i) (set! x i))
Marked(i) == List(<<Sym("begin"), Form2("display", Number(i)), Number(i)>>)
Assign(i) == List(<<Sym("begin"), Form2("display", Number(i)), Form3("set!", Sym("x"), Number(i))>>)
OperandLists(n) == [1..n -> {"Marked", "Assign"}]
Effects(ks) == [i \in 1..Len(ks) |-> IF ks[i] = "Marked" THEN Marked(i) ELSE Assign(i)]

\* the operators of the applications: 7, (lambda (a ...) (display BodyMark)), and
\* each of them behind an announcement (begin (display 0) ...)
ParamNames == <<"a", "b", "c", "d">>
Params(n) == [i \in 1..n |-> Sym(ParamNames[i])]
BodyMark == MaxParams + 7     \* a number no operand announces
Lam(n) == Form3("lambda", List(Params(n)), Form2("display", Number(BodyMark)))
Behind(op) == List(<<Sym("begin"), Form2("display", Number(0)), op>>)
Operators == {Number(7)} \cup {Lam(n) : n \in 0..MaxParams}
ApplyOrderForms ==
    {List(<<op>> \o Effects(ks)) :
        op \in Operators \cup {Behind(q) : q \in Operators},
        ks \in UNION {OperandLists(m) : m \in 0..MaxParams}}

\* (op r_1 ... r_m) for primitives, operand i being (begin (display i) i)
OrderOps == {"not", "+", "-", "*", "<", "cons", "list"}
MarkedRands(m) == [i \in 1..m |-> Marked(i)]
OperandOrderForms == {Direct(op, MarkedRands(m)) : op \in OrderOps, m \in 1..MaxParams + 1}

\* defines whose expression fails, and the definitions around them
Fail == Form3("/", Number(1), Number(0))                        \* (/ 1 0)
ThenFail(stx) == List(<<Sym("begin"), stx, Fail>>)               \* (begin stx (/ 1 0))
DefineX1 == Form3("define", Sym("x"), Number(1))
DefineG0 == Form3("define", Sym("g"), Number(0))
DefineXFail == Form3("define", Sym("x"), Fail)
DefineXSelf == Form3("define", Sym("x"), Form3("+", Sym("x"), Number(1)))
DefineXNested == Form3("define", Sym("x"), ThenFail(Form3("define", Sym("y"), Number(1))))
\* (define x (begin (set! g (lambda () x)) (/ 1 0)))
DefineXEscape ==
    Form3("define", Sym("x"),
          ThenFail(Form3("set!", Sym("g"), Form3("lambda", List(<<>>), Sym("x")))))
DefineCar == Form3("define", Sym("car"), Sym("car"))
FailingDefines == {DefineXFail, DefineXSelf, DefineXNested, DefineXEscape}
PlaceholderDefs == {DefineX1, DefineG0, DefineCar} \cup FailingDefines

\* (letrec ((a ea) (b eb)) body)
Letrec2(a, ea, b, eb, body) ==
    Form3("letrec", List(<<List(<<Sym(a), ea>>), List(<<Sym(b), eb>>)>>), body)
LetrecAhead == Letrec2("a", Sym("b"), "b", Number(1), Sym("a"))   \* (letrec ((a b) (b 1)) a)
LetrecBack == Letrec2("a", Number(1), "b", Sym("a"), Sym("b"))    \* (letrec ((a 1) (b a)) b)
LetrecOuter == Letrec2("x", Sym("x"), "b", Number(1), Sym("x"))   \* (letrec ((x x) (b 1)) x)
LetrecCar == Letrec2("car", Sym("car"), "b", Number(1), Number(1))
PlaceholderExprs ==
    {Sym("x"), Sym("y"), Call0("g"), LetrecAhead, LetrecBack, LetrecOuter, LetrecCar}

\* procedures whose bodies define a name, and their calls
DefineT0 == Form3("define", Sym("t"), Number(0))
\* (define q (lambda (a) (display t) (define t a) t))
DefineLocalQ ==
    Form3("define", Sym("q"),
          List(<<Sym("lambda"), List(<<Sym("a")>>), Form2("display", Sym("t")),
                 Form3("define", Sym("t"), Sym("a")), Sym("t")>>))
\* (define f (lambda () (define t 5) t))
DefineLocalF ==
    Form3("define", Sym("f"),
          List(<<Sym("lambda"), List(<<>>), Form3("define", Sym("t"), Number(MaxVal)), Sym("t")>>))
CallLocalQ(k) == Form2("q", Number(k))
LocalArgs == 1..2
\* (begin (q 1) t)
CallThenT == Form3("begin", CallLocalQ(1), Sym("t"))
\* (let ((u 1)) (begin (f) t))
LetCallThenT ==
    Form3("let", List(<<List(<<Sym("u"), Number(1)>>)>>), Form3("begin", Call0("f"), Sym("t")))
LocalCalls == {CallLocalQ(k) : k \in LocalArgs} \cup {Call0("f"), CallThenT, LetCallThenT}
LocalDefs == {DefineT0, DefineLocalQ, DefineLocalF}

\* (op) and (op x)
FewOperandForms ==
    {Direct(op, <<>>) : op \in ArithOps} \cup {Direct(op, <<x>>) : op \in ArithOps, x \in Operands}

(***************************************************************************)
(* Sessions.  A session is the top-level driver handing forms to the       *)
(* translator and then to the evaluator, always with the same Assoc        *)
(* variable genv.  It consists of up to MaxDefs definitions and            *)
(* assignments followed by one expression; a crash ends it at once.        *)
(***************************************************************************)
\* the forms of the first three suites: variables and closures over them;
\* procedures and primitives; control forms evaluated in the empty
\* environment.  The suites "syntax" and "numeric" have actions of their own.
Suites == {"scope", "procs", "control", "syntax", "numeric", "order", "placeholder", "local"}
Allowed(s) ==
    CASE s = "scope" ->
           DefineVarForms \cup {GetX} \cup SetForms \cup {CallF, LetCallF, LambdaCallF} \cup LetForms
      [] s = "procs" -> (DefineProcForms \ {GetX}) \cup {CallF, Call0("g")} \cup CountCalls
                        \cup PrimitiveForms
      [] s = "control" -> LetrecForms \cup AndOrForms \cup CondForms
      [] OTHER -> {}

Host(u) == [depth |-> MaxDepth, order |-> argOrder, ub |-> u]

\* what a form leaves behind: p is its translation, r its evaluation
Commit(f, u, after, p, r) ==
    /\ phase = "defs"
    /\ form' = f
    /\ last' = p.e
    /\ pre' = [heap |-> heap, genv |-> genv]
    /\ ubPick' = u
    /\ UNCHANGED <<suite, argOrder, call, ret>>
    /\ IF p.ok
       THEN /\ heap' = r.h
            /\ genv' = r.env
            /\ res' = [st |-> r.st, err |-> r.err, v |-> r.v]
            /\ out' = r.o
            /\ phase' = IF r.st \in {"ub", "overflow"} THEN "done" ELSE after
       ELSE /\ UNCHANGED <<heap, genv>>
            /\ res' = [st |-> "syntax", err |-> p.err, v |-> NullPtr]
            /\ out' = <<>>
            /\ phase' = after

Evaluate(f, u, after, p) == Commit(f, u, after, p, Eval(p.e, genv, heap, <<>>, Host(u)))
Run(f, u, after) == Evaluate(f, u, after, parse(f))

NoUB == [k |-> "crash"]

\* a form of the suite of this session, while the session accepts forms
Permitted(f) == phase = "defs" /\ f \in Allowed(suite)

Definition(f) == ndefs < MaxDefs /\ ndefs' = ndefs + 1 /\ Run(f, NoUB, "defs")
Expression(f, u) == UNCHANGED ndefs /\ Run(f, u, "done")

DefineVar == \E f \in DefineVarForms : Permitted(f) /\ Definition(f)
DefineProc == \E f \in DefineProcForms : Permitted(f) /\ Definition(f)
SetVar == \E f \in SetForms : Permitted(f) /\ Definition(f)
CallProc == \E f \in CallForms : Permitted(f) /\ Expression(f, NoUB)
EvalLet == \E f \in LetForms : Permitted(f) /\ Expression(f, NoUB)
EvalLetrec == \E f \in LetrecForms : Permitted(f) /\ Expression(f, NoUB)
EvalAndOr == \E f \in AndOrForms : Permitted(f) /\ Expression(f, NoUB)
EvalCond == \E f \in CondForms, u \in UBOutcomes : Permitted(f) /\ Expression(f, u)
EvalPrimitive == \E f \in PrimitiveForms : Permitted(f) /\ Expression(f, NoUB)
LookUp == suite = "scope" /\ \E f \in VarForms : Expression(f, NoUB)
TranslateCond == suite = "syntax" /\ \E f \in MisplacedElseForms, u \in UBOutcomes : Expression(f, u)
DefineSugar == suite = "syntax" /\ \E f \in SugarForms : Expression(f, NoUB)
QuoteMalformed == suite = "syntax" /\ \E f \in MalformedQuoteForms : Expression(f, NoUB)
QuoteDatum == suite = "syntax" /\ \E f \in QuoteForms : Expression(f, NoUB)
EvalLiteral == suite = "numeric" /\ \E f \in LiteralForms : Expression(f, NoUB)
EvalArith == suite = "numeric" /\ \E f \in ArithForms : Expression(f, NoUB)
EvalRoundTrip == suite = "numeric" /\ \E f \in RoundTripForms : Expression(f, NoUB)
EvalFewOperands == suite = "numeric" /\ \E f \in FewOperandForms : Expression(f, NoUB)
EvalExpt == suite = "numeric" /\ \E f \in ExptForms : Expression(f, NoUB)
\* the sessions of the suite "order": (define x 0), then one form
OrderDefine == suite = "order" /\ ndefs = 0 /\ Definition(DefineX0)
ApplySteps == suite = "order" /\ ndefs = 1 /\ \E f \in ApplyOrderForms : Expression(f, NoUB)
\* the sessions of the suite "placeholder"
DefineFailing == suite = "placeholder" /\ \E f \in PlaceholderDefs : Definition(f)
AfterFailure == suite = "placeholder" /\ \E f \in PlaceholderExprs : Expression(f, NoUB)
\* the sessions of the suite "local": definitions and calls in any order
DefineLocal == suite = "local" /\ \E f \in LocalDefs : Definition(f)
CallEarlier == suite = "local" /\ \E f \in LocalCalls : Definition(f)
CallLocal == suite = "local" /\ \E f \in LocalCalls : Expression(f, NoUB)
OperandOrder == suite = "order" /\ ndefs = 1 /\ \E f \in OperandOrderForms : Expression(f, NoUB)

NoCall == [f |-> "none", args |-> <<>>]

Init ==
    /\ heap = <<>>
    /\ genv = empty
    /\ form = List(<<>>)
    /\ last = [c |-> "none"]
    /\ res = [st |-> "ok", err |-> "", v |-> VoidV]
    /\ out = <<>>
    /\ pre = [heap |-> <<>>, genv |-> empty]
    /\ phase = "defs"
    /\ ndefs = 0
    /\ suite \in Suites
    /\ argOrder \in {"LR", "RL"}
    /\ ubPick = NoUB
    /\ call = NoCall
    /\ ret = [num |-> 0, den |-> 1]

Next ==
    \/ DefineVar
    \/ DefineProc
    \/ SetVar
    \/ CallProc
    \/ EvalLet
    \/ EvalLetrec
    \/ EvalAndOr
    \/ EvalCond
    \/ EvalPrimitive
    \/ LookUp
    \/ TranslateCond
    \/ DefineSugar
    \/ QuoteMalformed
    \/ QuoteDatum
    \/ EvalLiteral
    \/ EvalArith
    \/ EvalRoundTrip
    \/ EvalFewOperands
    \/ EvalExpt
    \/ OrderDefine
    \/ ApplySteps
    \/ OperandOrder
    \/ DefineFailing
    \/ AfterFailure
    \/ DefineLocal
    \/ CallEarlier
    \/ CallLocal

Spec == Init /\ [][Next]_vars

(***************************************************************************)
(* Direct calls of the helpers of utils.hpp, outside any session           *)
(***************************************************************************)
Args == -MaxArg..MaxArg

\* util::normalize_rational(num, den) on two variables holding a and b
Normalize ==
    \E a \in Args, b \in Args \ {0} :
        /\ call = NoCall
        /\ call' = [f |-> "normalize_rational", args |-> <<a, b>>]
        /\ ret' = normalize_rational(a, b)
        /\ UNCHANGED <<heap, genv, form, last, res, out, pre, phase, ndefs, suite, argOrder,
                       ubPick>>

UnitInit == Init /\ suite = "numeric" /\ argOrder = "LR"
UnitNext == Normalize
UnitSpec == UnitInit /\ [][UnitNext]_vars

(***************************************************************************)
(* Properties                                                              *)
(***************************************************************************)
\* the procedure bound to f before the last form, or Value(nullptr)
FBefore == find("f", pre.genv, pre.heap)

\* the last form called f: directly, from a let that binds x, or from a
\* lambda whose parameter is x
CalledGetX ==
    /\ suite = "scope"
    /\ form \in {CallF, LetCallF, LambdaCallF}
    /\ FBefore.t = "V_PROC"

\* C1: a call of (lambda () x) yields the x of the environment the lambda
\* was evaluated in (an error if that environment has no x), whatever the
\* caller's environment binds x to.
C1_LexicalScope ==
    CalledGetX =>
        LET x == find("x", FBefore.env, pre.heap)
        IN IF x = NullPtr THEN res.st = "err" /\ res.err = "undefined variable"
           ELSE res.st = "ok" /\ res.v = x

\* the caller bound x to Other, the closure's environment binds x too
C1_Witness ==
    /\ CalledGetX
    /\ form \in {LetCallF, LambdaCallF}
    /\ res.st = "ok"
    /\ res.v \in {IntegerV(n) : n \in 1..MaxVal}

\* the defines an expression runs against the Assoc variable it is handed
\* (a Begin hands its own variable to its parts, a Define hands rec_env)
RECURSIVE definesRun(_)
RECURSIVE definesRunAll(_, _)
definesRunAll(es, i) == IF i > Len(es) THEN 0 ELSE definesRun(es[i]) + definesRunAll(es, i + 1)
definesRun(e) ==
    CASE e.c = "Define" -> 1 + definesRun(e.e)
      [] e.c = "Begin" -> definesRunAll(e.es, 1)
      [] OTHER -> 0

DefineSucceeded == last.c = "Define" /\ res.st = "ok"

\* what the defined name must look up to, for the expressions of the model
DefinedValueOk(v, frame) ==
    CASE last.e.c = "Fixnum" -> v = IntegerV(last.e.n)
      [] last.e.c = "Begin" -> v = IntegerV(last.e.es[Len(last.e.es)].n)
      [] last.e.c = "Lambda" ->
           /\ v = ProcedureV(last.e.x, last.e.e, frame)
           /\ find(last.var, v.env, heap) = v
      [] last.e.c = "Var" /\ last.e.x \in DOMAIN primitives ->
           LET it == primitive_map(primitives[last.e.x])
           IN v = ProcedureV(it.ps, it.e, frame)
      [] OTHER -> FALSE

C3_LaterDefineObserved ==
    /\ (suite = "scope" /\ form = CallF /\ FBefore.t = "V_PROC"
          /\ find("x", pre.genv, pre.heap) # NullPtr) =>
          res.st = "ok" /\ res.v = find("x", pre.genv, pre.heap)
    /\ (suite = "procs" /\ form = CallF /\ FBefore.t = "V_PROC"
          /\ find("g", pre.genv, pre.heap).t = "V_PROC") =>
          res.st = "ok" /\ res.v = IntegerV(1)

\* C4: the procedures of the parity letrec are stored in two frames added
\* in front of the environment, both close over the environment that has
\* both frames, and (even? n) is #t iff n is even, (odd? n) iff n is odd.
C4_Letrec ==
    \A who \in {"even?", "odd?"}, n \in 0..MaxN :
        form = ParityForm(who, n) =>
            LET a == Len(pre.heap) + 1
            IN /\ res.st = "ok"
               /\ res.v = BooleanV((n % 2 = 0) <=> (who = "even?"))
               /\ heap[a].x = "even?" /\ heap[a].next = pre.genv
               /\ heap[a + 1].x = "odd?" /\ heap[a + 1].next = a
               /\ heap[a].v.t = "V_PROC" /\ heap[a].v.env = a + 1
               /\ heap[a + 1].v.t = "V_PROC" /\ heap[a + 1].v.env = a + 1
               /\ genv = pre.genv

C4_Witness ==
    \E n \in 2..MaxN : form = ParityForm("even?", n) /\ res.st = "ok" /\ res.v = BooleanV(TRUE)

\* C5: the binding expressions of a let see the environment the let was
\* entered with: the nested let yields 2, the outer x is 1 again after the
\* inner let, a binding does not see its neighbour, and the let leaves the
\* Assoc variable and every frame of the enclosing environment as they were.
C5_Let ==
    /\ form = LetNested => res.st = "ok" /\ res.v = IntegerV(2)
    /\ form = LetAfter => res.st = "ok" /\ res.v = IntegerV(1)
    /\ form \in {LetPair, LetOuter} =>
          LET x == find("x", pre.genv, pre.heap)
          IN IF x = NullPtr THEN res.st = "err" /\ res.err = "undefined variable"
             ELSE res.st = "ok" /\ res.v = x
    /\ form \in LetForms =>
          /\ genv = pre.genv
          /\ SubSeq(heap, 1, Len(pre.heap)) = pre.heap
          /\ \A n \in {"x", "y"} : find(n, genv, heap) = find(n, pre.genv, pre.heap)

\* a let that binds x and y next to an outer x has run
C5_Witness ==
    /\ form = LetPair
    /\ res.st = "ok"
    /\ find("x", genv, heap) = res.v

\* C6: set! of a bound name stores the value in the innermost frame that
\* binds it and changes nothing else; a closure whose chain reaches that
\* frame first yields the new value when it is called next; set! of an
\* unbound name fails and changes nothing.
SetRan == last.c = "Set"
SetFrame == firstFrame(last.var, pre.genv, pre.heap)
C6_SetInPlace ==
    SetRan =>
        IF SetFrame # 0
        THEN /\ res.st = "ok"
             /\ genv = pre.genv
             /\ heap = [pre.heap EXCEPT ![SetFrame].v = IntegerV(last.e.n)]
        ELSE /\ res.st = "err" /\ res.err = "undefined variable"
             /\ genv = pre.genv
             /\ heap = pre.heap
C6_ClosureObserves ==
    (/\ SetRan /\ res.st = "ok"
     /\ form' = CallF
     /\ find("f", genv, heap).t = "V_PROC"
     /\ firstFrame("x", find("f", genv, heap).env, heap) = SetFrame)
        => (res'.st = "ok" /\ res'.v = IntegerV(last.e.n))
C6_Set == [](C6_SetInPlace) /\ [][C6_ClosureObserves]_vars

\* a set! has stored into a frame that the closure f reaches
C6_Witness ==
    /\ SetRan /\ res.st = "ok" /\ suite = "scope"
    /\ find("f", genv, heap).t = "V_PROC"
    /\ firstFrame("x", find("f", genv, heap).env, heap) = SetFrame
    /\ heap[SetFrame].v # pre.heap[SetFrame].v

\* C7 as claimed: a primitive that the environment does not bind, passed as
\* a value and called with operands the operator-position form accepts,
\* yields what the operator-position form yields.
C7_FirstClassSameAsDirect ==
    \A c \in PrimitiveCalls :
        (form = FirstClass(c[1], c[2]) /\ find(c[1], pre.genv, pre.heap) = NullPtr) =>
            LET direct == parse(Direct(c[1], c[2]))
                r == Eval(direct.e, pre.genv, pre.heap, <<>>, Host(NoUB))
            IN (direct.ok /\ r.st = "ok") => (res.st = "ok" /\ res.v = r.v)

\* C8 as claimed: once the user has bound car to a procedure that returns
\* 42, car means that procedure both as an operator, (car (quote (1 2))),
\* and as an operand, ((lambda (op) (op (quote (1 2)))) car).
C8_UserBindingShadows ==
    (/\ form \in {Direct("car", <<Quoted12>>), FirstClass("car", <<Quoted12>>)}
     /\ find("car", pre.genv, pre.heap).t = "V_PROC") =>
        res.st = "ok" /\ res.v = IntegerV(42)

\* the operands 1..k have announced themselves, in this order
Announced(k) == [i \in 1..k |-> IntegerV(i)]
\* the first position of vs that holds b, or Len(vs) + 1
RECURSIVE firstAt(_, _, _)
firstAt(vs, b, i) == IF i > Len(vs) \/ vs[i] = b THEN i ELSE firstAt(vs, b, i + 1)

\* C9: and stops at its first #f operand and yields #f, otherwise yields
\* the value of its last operand (#t when it has none); or stops at its
\* first operand that is not #f and yields that value, otherwise #f; the
\* operands run are exactly those up to the stopping one, left to right.
C9_ShortCircuit ==
    \A vs \in RandLists :
        /\ form = AndOrForm("and", vs) =>
              LET k == firstAt(vs, FALSE, 1)
              IN /\ res.st = "ok"
                 /\ IF k <= Len(vs) THEN res.v = BooleanV(FALSE) /\ out = Announced(k)
                    ELSE /\ out = Announced(Len(vs))
                         /\ res.v = IF vs = <<>> THEN BooleanV(TRUE) ELSE IntegerV(Len(vs))
        /\ form = AndOrForm("or", vs) =>
              LET k == firstAt(vs, TRUE, 1)
              IN /\ res.st = "ok"
                 /\ IF k <= Len(vs) THEN res.v = IntegerV(k) /\ out = Announced(k)
                    ELSE res.v = BooleanV(FALSE) /\ out = Announced(Len(vs))

\* (and 1 2 #f 4) has stopped at its third operand
C9_Witness ==
    /\ form = AndOrForm("and", <<TRUE, TRUE, FALSE, TRUE>>)
    /\ res.v = BooleanV(FALSE)
    /\ out = Announced(3)

\* C10 as claimed: cond runs the body of its first clause whose test is not
\* #f, else the body of its else clause, and yields the body's value; with
\* no such clause it yields Void; no other body is run.
C10_CondSelects ==
    \A ts \in CondTests, withElse \in BOOLEAN :
        form = CondForm(ts, withElse) =>
            LET k == firstAt(ts, TRUE, 1)
            IN /\ res.st = "ok"
               /\ IF k <= Len(ts) THEN res.v = IntegerV(k) /\ out = <<IntegerV(k)>>
                  ELSE IF withElse THEN res.v = IntegerV(0) /\ out = <<IntegerV(0)>>
                  ELSE res.v = VoidV /\ out = <<>>

\* C11 as claimed: translating a cond whose else clause is not the last
\* clause fails; a cond whose else clause is last translates, the else
\* clause holding its body expressions only, without a test.
C11_ElseOnlyLast ==
    /\ form \in MisplacedElseForms => res.st = "syntax"
    /\ \A ts \in CondTests :
          form = CondForm(ts, TRUE) =>
              /\ res.st # "syntax"
              /\ last.c = "Cond"
              /\ last.clauses[Len(ts) + 1] = <<Unary("Display", Fixnum(0)), Fixnum(0)>>

\* C12 as claimed: (define (h p...) b1 ... bn) with n >= 1 translates, and
\* to the expression (define h (lambda (p...) b1 ... bn)) translates to:
\* Define(h, Lambda(p..., body)), the body being b1 when n = 1 and
\* Begin(b1 ... bn) otherwise.
C12_DefineSugar ==
    \A ps \in ParamLists, bs \in BodyLists :
        form = Sugar(ps, bs) =>
            LET d == parse(Desugared(ps, bs))
                body == parseEach(bs, 1, <<>>).es
            IN /\ res.st # "syntax"
               /\ d.ok
               /\ last = d.e
               /\ last = Define("h", Lambda(symbolNames(ps),
                                           IF Len(bs) = 1 THEN body[1] ELSE Begin(body)))

\* C13 as claimed: a form that quotes a datum whose dot is first, or is not
\* followed by exactly one element, is rejected by the translator: nothing
\* of the form is evaluated, so nothing is written and no frame is added.
C13_MalformedQuoteRejected ==
    form \in MalformedQuoteForms =>
        /\ res.st = "syntax"
        /\ out = <<>>
        /\ heap = pre.heap

\* a datum as it is written: a number in decimal, a symbol by its name, a
\* list as its elements between parentheses, one space between two elements
RECURSIVE Written(_)
RECURSIVE WrittenEach(_, _)
WrittenEach(stxs, i) ==
    IF i > Len(stxs) THEN ""
    ELSE (IF i > 1 THEN " " ELSE "") \o Written(stxs[i]) \o WrittenEach(stxs, i + 1)
Written(stx) ==
    CASE stx.k = "Number" -> Decimal(stx.n)
      [] stx.k = "SymbolSyntax" -> stx.s
      [] OTHER -> "(" \o WrittenEach(stx.stxs, 1) \o ")"

\* the value a quoted datum denotes, by structure: a list is its first
\* element consed onto the rest, the rest of (. t) being t itself
RECURSIVE Denoted(_)
RECURSIVE DenotedFrom(_, _)
DenotedFrom(stxs, i) ==
    IF i > Len(stxs) THEN NullV
    ELSE IF stxs[i] = Dot THEN Denoted(stxs[i + 1])
    ELSE PairV(Denoted(stxs[i]), DenotedFrom(stxs, i + 1))
Denoted(stx) ==
    CASE stx.k = "Number" -> IntegerV(stx.n)
      [] stx.k = "SymbolSyntax" -> SymbolV(stx.s)
      [] OTHER -> DenotedFrom(stx.stxs, 1)

\* the datum with the elements of a list tail written in place of the tail:
\* (e1 ... en . (t1 ... tm)) is (e1 ... en t1 ... tm)
Spliced(d) ==
    LET n == Len(d.stxs)
    IN IF n >= 2 /\ d.stxs[n - 1] = Dot /\ d.stxs[n].k = "List"
       THEN List(SubSeq(d.stxs, 1, n - 2) \o d.stxs[n].stxs)
       ELSE d

PrintsBack(d) == res.st = "ok" /\ res.v = Denoted(d) /\ show(res.v) = Written(d)

\* C14 as claimed: every quoted list evaluates to the pair chain it denotes
\* and prints as it is written: a proper list without a dot, a dotted list
\* (e1 ... en . t) with one " . " in front of t.
C14_PrintsAsWritten ==
    \A d \in QuoteData : form = Form2("quote", d) => PrintsBack(d)

\* C14 amended: a proper list, and a dotted list whose tail is an atom,
\* evaluates to the pair chain it denotes and prints as it is written; a
\* dotted list whose tail is a list evaluates to the pair chain it denotes
\* and prints as the list with the elements of the tail in place of the tail.
C14_PrintsListNotation ==
    /\ \A d \in ProperData \cup AtomDottedData : form = Form2("quote", d) => PrintsBack(d)
    /\ \A d \in ListDottedData :
          form = Form2("quote", d) =>
              /\ res.st = "ok"
              /\ res.v = Denoted(d)
              /\ res.v = Denoted(Spliced(d))
              /\ show(res.v) = Written(Spliced(d))

\* (quote (1 2 . 3)) has printed as (1 2 . 3)
C14_Witness ==
    /\ form = Form2("quote", Dotted(<<Number(1), Number(2)>>, Number(3)))
    /\ res.st = "ok"
    /\ show(res.v) = "(1 2 . 3)"

\* the Rational values a value holds, itself included
RECURSIVE RationalsIn(_)
RationalsIn(v) ==
    CASE v.t = "V_RATIONAL" -> {v}
      [] v.t = "V_PAIR" -> RationalsIn(v.car) \cup RationalsIn(v.cdr)
      [] OTHER -> {}

\* every Rational the state holds: in the result, in a frame, in the output
RationalsHeld ==
    RationalsIn(res.v)
    \cup UNION {RationalsIn(heap[i].v) : i \in 1..Len(heap)}
    \cup UNION {RationalsIn(out[i]) : i \in 1..Len(out)}

\* C15: every Rational that a literal, a quoted datum or an arithmetic
\* primitive has constructed has a denominator > 0 and numerator and
\* denominator without a common divisor; it has the value that was asked
\* for; a literal or quoted fraction with denominator 0 fails.
C15_RationalInvariant ==
    /\ \A r \in RationalsHeld :
          /\ r.denominator > 0
          /\ gcd(Abs(r.numerator), r.denominator) = 1
          /\ \A d \in 2..(MaxDen * MaxDen) :
                ~(r.numerator % d = 0 /\ r.denominator % d = 0)
    /\ \A n \in -MaxNum..MaxNum, d \in -MaxDen..MaxDen :
          LET lit == RationalSyntax(n, d)
          IN /\ form = lit =>
                  IF d = 0 THEN res.st = "err"
                  ELSE /\ res.st = "ok" /\ res.v.t = "V_RATIONAL"
                       /\ res.v.numerator * d = n * res.v.denominator
             /\ form = Form2("quote", List(<<lit, Number(1)>>)) =>
                  IF d = 0 THEN res.st = "err"
                  ELSE /\ res.st = "ok" /\ res.v.t = "V_PAIR" /\ res.v.car.t = "V_RATIONAL"
                       /\ res.v.car.numerator * d = n * res.v.car.denominator

\* (/ 1 -2) has constructed a Rational from the denominator -2: it is -1/2
C15_Witness ==
    /\ form = Direct("/", <<Number(1), Number(-MaxNum)>>)
    /\ res.st = "ok"
    /\ res.v.t = "V_RATIONAL"
    /\ res.v.numerator = -1 /\ res.v.denominator = MaxNum

\* a numeric literal as the fraction it is written as
Frac(x) ==
    IF x.k = "Number" THEN [num |-> x.n, den |-> 1]
    ELSE [num |-> x.numerator, den |-> x.denominator]

\* the exact result of (op x y) as a fraction that is not reduced
Exact(op, x, y) ==
    LET a == Frac(x)
        b == Frac(y)
    IN CASE op = "+" -> [num |-> a.num * b.den + b.num * a.den, den |-> a.den * b.den]
         [] op = "-" -> [num |-> a.num * b.den - b.num * a.den, den |-> a.den * b.den]
         [] op = "*" -> [num |-> a.num * b.num, den |-> a.den * b.den]
         [] OTHER -> [num |-> a.num * b.den, den |-> a.den * b.num]

\* the fraction q is a whole number; the number v has the value of q
Integral(q) == q.num % Abs(q.den) = 0
HasValue(v, q) == IsNumber(v) /\ toRational(v).num * q.den = q.num * toRational(v).den

Half == RationalSyntax(1, 2)
Third == RationalSyntax(1, 3)

\* C16 as claimed: (op x y) for op among + - * / (y not zero for /) yields
\* the exact result, as an Integer when the result is a whole number and as
\* a Rational otherwise; (+ 1/2 1/2) is the Integer 1, (+ 1/2 1/3) the
\* Rational 5/6.
C16_Demotion ==
    /\ \A op \in ArithOps, x \in Operands, y \in Operands :
          (form = Direct(op, <<x, y>>) /\ Exact(op, x, y).den # 0) =>
              /\ res.st = "ok"
              /\ HasValue(res.v, Exact(op, x, y))
              /\ res.v.t = IF Integral(Exact(op, x, y)) THEN "V_INT" ELSE "V_RATIONAL"
    /\ form = Direct("+", <<Half, Half>>) => res.v = IntegerV(1)
    /\ form = Direct("+", <<Half, Third>>) =>
          res.v = [t |-> "V_RATIONAL", numerator |-> 5, denominator |-> 6]

\* C17 as claimed: for b # 0, negative b included, normalize(a, b) leaves
\* (n, d) with d > 0, n and d without a common divisor, and n/d = a/b.
C17_Normalize ==
    call.f = "normalize_rational" =>
        LET a == call.args[1]
            b == call.args[2]
        IN /\ ret.den > 0
           /\ \A k \in 2..MaxArg : ~(ret.num % k = 0 /\ ret.den % k = 0)
           /\ ret.num * b = a * ret.den

\* C18: for exact rationals x and y of the bounded range, (- (+ x y) y) is
\* numerically equal to x and, when y is not zero, (/ (* x y) y) is
\* numerically equal to x, both under the = primitive.
IsTrue == res.st = "ok" /\ res.v = BooleanV(TRUE)
NonZero(y) == IF y.k = "Number" THEN y.n # 0 ELSE y.numerator # 0
C18_RoundTrips ==
    \A x \in Operands, y \in Operands :
        /\ form = RoundTrip("+", "-", x, y) => IsTrue
        /\ form = RoundTrip("*", "/", x, y) /\ NonZero(y) => IsTrue
\* (= (/ (* 1/2 -2/3) -2/3) 1/2) has been evaluated
C18_Witness == form = RoundTrip("*", "/", Half, RationalSyntax(-2, 3)) /\ IsTrue

\* C19 as claimed: (+) yields the Integer 0 and (*) the Integer 1; (-) and
\* (/) fail; (- x) yields -x and (/ x), for x not zero, yields 1/x.
Fails == res.st \in {"syntax", "err"}
Yields(q) == res.st = "ok" /\ HasValue(res.v, q)
C19_FewOperands ==
    /\ form = Direct("+", <<>>) => res.st = "ok" /\ res.v = IntegerV(0)
    /\ form = Direct("*", <<>>) => res.st = "ok" /\ res.v = IntegerV(1)
    /\ form = Direct("-", <<>>) => Fails
    /\ form = Direct("/", <<>>) => Fails
    /\ \A x \in Operands :
        /\ form = Direct("-", <<x>>) => Yields(Exact("-", Number(0), x))
        /\ form = Direct("/", <<x>>) /\ NonZero(x) => Yields(Exact("/", Number(1), x))


\* the product x * y of two values of int lies in [INT_MIN, INT_MAX],
\* decided by rounded quotients of the limits
Within(x, y) ==
    IF y = 0 THEN TRUE
    ELSE IF y > 0
    THEN x <= INT_MAX \div y /\ x >= ((INT_MIN + y) - 1) \div y
    ELSE IF y = INT_MIN THEN x \in {0, 1}
    ELSE LET z == -y
             q == ((INT_MIN + z) - 1) \div z
         IN x >= ((z - INT_MAX) - 1) \div z /\ (q = INT_MIN \/ x <= -q)

\* b^e by e multiplications, for b # 0 or e # 0: the power when it lies in
\* [INT_MIN, INT_MAX]; once a power of b lies outside, so do the higher ones
Outside == [in |-> FALSE, n |-> 0]
RECURSIVE Power(_, _)
Power(b, e) ==
    IF e = 0 THEN [in |-> TRUE, n |-> 1]
    ELSE LET p == Power(b, e - 1)
         IN IF ~p.in THEN Outside
            ELSE IF Within(p.n, b) THEN [in |-> TRUE, n |-> p.n * b]
            ELSE Outside

IsExpt == form.k = "List" /\ Len(form.stxs) = 3 /\ form.stxs[1] = Sym("expt")

\* C20: (expt b e) on Integers fails when e < 0 and when b = 0 and e = 0;
\* otherwise it returns exactly b^e when b^e lies in [INT_MIN, INT_MAX] and
\* fails with the overflow error, never a wrapped value, when it does not.
C20_Expt ==
    IsExpt =>
        LET b == form.stxs[2].n
            e == form.stxs[3].n
        IN IF e < 0 \/ (b = 0 /\ e = 0) THEN Fails
           ELSE IF Power(b, e).in
           THEN res.st = "ok" /\ res.v = IntegerV(Power(b, e).n)
           ELSE res.st = "err" /\ res.err = "Integer overflow in expt"
\* (expt -2 31) has returned INT_MIN
C20_Witness ==
    form = Direct("expt", <<Number(-2), Number(31)>>) /\ res.st = "ok" /\ res.v = IntegerV(INT_MIN)
\* (expt 2 31) has failed with the overflow error
C20_WitnessOverflow ==
    /\ form = Direct("expt", <<Number(2), Number(31)>>)
    /\ res.st = "err" /\ res.err = "Integer overflow in expt"


\* the markers displayed by operands 1..m, in the order of the operands
Markers(m) == [i \in 1..m |-> IntegerV(i)]
\* the value x holds after the operands ks ran in order, 0 at the start
RECURSIVE Stored(_, _)
Stored(ks, i) ==
    IF i = 0 THEN 0 ELSE IF ks[i].stxs[3].k = "List" THEN i ELSE Stored(ks, i - 1)
IsApplyOrder == suite = "order" /\ phase = "done" /\ form \in ApplyOrderForms
Rator == form.stxs[1]
HeadBehind == Rator.k = "List" /\ Rator.stxs[1] = Sym("begin")
Operator == IF HeadBehind THEN Rator.stxs[3] ELSE Rator
HeadMarks == IF HeadBehind THEN <<IntegerV(0)>> ELSE <<>>
Rands == Tail(form.stxs)
XNow == find("x", genv, heap)

\* C21: the operator is evaluated first; a value that is not a Procedure
\* fails the call before any operand runs (nothing displayed, x and the
\* environment untouched); otherwise all operands run left to right, and
\* only then a wrong operand count fails the call, before the body runs.
C21_ApplySteps ==
    IsApplyOrder =>
        IF Operator.k = "Number"
        THEN /\ res.st = "err" /\ res.err = "Attempt to apply a non-procedure"
             /\ out = HeadMarks
             /\ heap = pre.heap /\ genv = pre.genv
        ELSE /\ XNow = IntegerV(Stored(Rands, Len(Rands)))
             /\ IF Len(Rands) # Len(Operator.stxs[2].stxs)
                THEN /\ res.st = "err" /\ res.err = "Wrong number of arguments"
                     /\ out = HeadMarks \o Markers(Len(Rands))
                ELSE /\ res.st = "ok"
                     /\ out = HeadMarks \o Markers(Len(Rands)) \o <<IntegerV(BodyMark)>>
\* ((begin (display 0) (lambda (a) (display 9))) (begin (display 1) (set! x 1))
\*  (begin (display 2) 2)) has failed on the count after both operands ran
C21_Witness ==
    /\ form = List(<<Behind(Lam(1)), Assign(1), Marked(2)>>)
    /\ res.err = "Wrong number of arguments"
    /\ out = <<IntegerV(0), IntegerV(1), IntegerV(2)>>
    /\ XNow = IntegerV(1)
\* ((begin (display 0) 7) (begin (display 1) (set! x 1))) has failed with x still 0
C21_WitnessNonProcedure ==
    /\ form = List(<<Behind(Number(7)), Assign(1)>>)
    /\ res.err = "Attempt to apply a non-procedure"
    /\ out = <<IntegerV(0)>>
    /\ XNow = IntegerV(0)


IsOperandOrder == suite = "order" /\ phase = "done" /\ form \in OperandOrderForms

\* C22 as claimed: the operands of every primitive form run strictly left
\* to right, so the operands of a translated (op r_1 ... r_m) display
\* 1, ..., m in this order; in particular (+ a b) runs a before b.
C22_LeftToRight == IsOperandOrder /\ res.st # "syntax" => out = Markers(Len(Rands))


\* the form mentions set!
RECURSIVE UsesSet(_)
UsesSet(stx) ==
    IF stx.k = "SymbolSyntax" THEN stx.s = "set!"
    ELSE IF stx.k = "List" THEN \E i \in 1..Len(stx.stxs) : UsesSet(stx.stxs[i])
    ELSE FALSE
\* the frames of the chain from handle l that bind name, innermost first
Binding(name, l, h) == SelectSeq(chain(l, h), LAMBDA i : h[i].x = name)

\* C23: a form leaves every frame that existed before it in place, with the
\* same name and the same parent, so every chain that could be followed
\* before can be followed after and is the same chain; new frames only
\* point to older ones; a form without set! changes no stored value of an
\* old frame; and a variable yields the value of the innermost frame that
\* binds its name.
C23_Persistent ==
    /\ Len(heap) >= Len(pre.heap)
    /\ \A i \in 1..Len(pre.heap) :
        /\ heap[i].x = pre.heap[i].x /\ heap[i].next = pre.heap[i].next
        /\ chain(i, heap) = chain(i, pre.heap)
        /\ ~UsesSet(form) => heap[i].v = pre.heap[i].v
    /\ \A i \in 1..Len(heap) : heap[i].next < i
    /\ form \in VarForms /\ Binding(form.s, pre.genv, pre.heap) # <<>> =>
        res.st = "ok" /\ res.v = pre.heap[Binding(form.s, pre.genv, pre.heap)[1]].v
\* x has been looked up behind two frames for x, and the older frame is still
\* there with another value
C23_Witness ==
    /\ form = Sym("x") /\ res.st = "ok"
    /\ Len(Binding("x", genv, heap)) >= 2
    /\ heap[Binding("x", genv, heap)[2]].v # res.v
\* a set! has changed the value of an old frame that a closure reaches
C23_WitnessSet ==
    /\ UsesSet(form) /\ res.st = "ok"
    /\ \E i \in 1..Len(pre.heap) :
        /\ heap[i].v # pre.heap[i].v
        /\ \E j \in 1..Len(pre.heap) :
            pre.heap[j].v.t = "V_PROC" /\ i \in {chain(pre.heap[j].v.env, heap)[k] :
                                                   k \in 1..Len(chain(pre.heap[j].v.env, heap))}


\* the frames of the chain from handle l that are the innermost binding of
\* their name and hold a placeholder
Placeholders(l, h) ==
    SelectSeq(chain(l, h), LAMBDA i : h[i].v = NullPtr /\ firstFrame(h[i].x, l, h) = i)

Unbound == res.st = "err" /\ res.err = "undefined variable"
\* the procedure Var::eval makes for the primitive car
IsPrimitiveCar(v) == v.t = "V_PROC" /\ v.e = Unary("Car", Var("parm"))

\* C25: a variable whose innermost binding is a placeholder of Define or
\* Letrec that is not filled yet fails as unbound and never yields an outer
\* binding of the name: (define x (+ x 1)) fails and leaves x as it was,
\* (letrec ((a b) (b 1)) a) and (letrec ((x x) (b 1)) x) fail, while
\* (letrec ((a 1) (b a)) b) yields 1; a primitive name yields the
\* primitive procedure instead, as in (define car car).
C25_PlaceholderUnbound ==
    /\ form = DefineXSelf =>
        Unbound /\ find("x", genv, heap) = find("x", pre.genv, pre.heap)
    /\ form \in {LetrecAhead, LetrecOuter} => Unbound
    /\ form = LetrecBack => res.st = "ok" /\ res.v = IntegerV(1)
    /\ form = DefineCar => res.st = "ok" /\ IsPrimitiveCar(find("car", genv, heap))
    /\ form = LetrecCar => res.st = "ok"
\* (define x (+ x 1)) has failed with x bound to 1
C25_Witness ==
    form = DefineXSelf /\ Unbound /\ find("x", pre.genv, pre.heap) = IntegerV(1)
\* (letrec ((x x) (b 1)) x) has failed with x bound to 1 outside
C25_WitnessLetrec ==
    form = LetrecOuter /\ Unbound /\ find("x", genv, heap) = IntegerV(1)


\* what the caller's environment held before the form, and what the
\* environment that the procedure named p captured held
Outer(n) == find(n, pre.genv, pre.heap)
Captured(n, p) == find(n, Outer(p).env, pre.heap)
Shown(v) == res.st = "ok" /\ res.v = v

\* C26: a define in a procedure body is local to the call.  The body sees
\* it: (q k) shows the t of the captured environment, defines t as k and
\* yields k.  After the call the caller's environment has the head frame it
\* had, every frame that existed (those of the procedure's captured chain
\* among them) is as it was, and t, q, f look up as before, in the caller's
\* environment and in the captured one: (begin (q 1) t) yields the caller's
\* t or fails as unbound, and a call after an earlier call shows the
\* captured t again, not the t of the earlier call.
C26_LocalDefines ==
    suite = "local" /\ form \in LocalCalls =>
        /\ genv = pre.genv
        /\ Len(heap) >= Len(pre.heap) /\ SubSeq(heap, 1, Len(pre.heap)) = pre.heap
        /\ \A n \in {"t", "q", "f"} : find(n, genv, heap) = Outer(n)
        /\ \A p \in {"q", "f"} :
              Outer(p) # NullPtr => find("t", Outer(p).env, heap) = Captured("t", p)
        /\ \A k \in LocalArgs :
              form = CallLocalQ(k) /\ Outer("q") # NullPtr =>
                  IF Captured("t", "q") = NullPtr THEN Unbound /\ out = <<>>
                  ELSE Shown(IntegerV(k)) /\ out = <<Captured("t", "q")>>
        /\ form = Call0("f") /\ Outer("f") # NullPtr => Shown(IntegerV(MaxVal))
        /\ form = CallThenT /\ Outer("q") # NullPtr =>
              IF Captured("t", "q") = NullPtr \/ Outer("t") = NullPtr THEN Unbound
              ELSE Shown(Outer("t"))
        /\ form = LetCallThenT /\ Outer("f") # NullPtr =>
              IF Outer("t") = NullPtr THEN Unbound ELSE Shown(Outer("t"))
\* (q 2) after (q 1), with t bound to 0 outside: the frame of the first
\* call exists, and the second call has shown 0 and yielded 2
C26_Witness ==
    /\ suite = "local"
    /\ form = CallLocalQ(2) /\ Shown(IntegerV(2)) /\ out = <<IntegerV(0)>>
    /\ \E i \in DOMAIN pre.heap : pre.heap[i].x = "t" /\ pre.heap[i].v = IntegerV(1)
\* (f) with t unbound outside: the body has seen its own t, the caller none
C26_WitnessUnbound ==
    suite = "local" /\ form = Call0("f") /\ Shown(IntegerV(MaxVal)) /\ find("t", genv, heap) = NullPtr

====
